---- MODULE Spec2Model ----
(***************************************************************************)
(* A model of opentracingrust: the span completion channel and the         *)
(* ReporterThread that drains it (specification Spec), and the span /      *)
(* span-context reference and baggage protocol (specifications SpecSpan    *)
(* and SpecRefSteps), the GlobalTracer (SpecGlobal), the carriers of        *)
(* FileTracer (SpecCarrier), the life of one span from its StartOptions to  *)
(* FileTracer::write_trace (SpecLife), repeated ReporterThread::stop calls  *)
(* (SpecStop, and SpecStopFair with the threads scheduled),                 *)
(* SpanContext::clone (SpecClone), FailSpan::fail_span (SpecFail), chains   *)
(* of references (SpecChain) and FileTracer's inject followed by extract    *)
(* (SpecRoundTrip).                                                         *)
(***************************************************************************)
EXTENDS Integers, Sequences, FiniteSets, TLC

\* ------------------------------------------------------------------ bounds

\* Number of Span values (originals and clones) one run creates.
MaxSpans == 3

\* Largest stop_delay, in clock ticks, a reporter is configured with.
MaxStopDelay == 1

\* Number of spans one run of the span-data specifications creates.
MaxDataSpans == 2

\* Number of references added and baggage items set in one run, together.
MaxOps == 2

\* Number of threads that use the GlobalTracer.
MaxThreads == 2

\* Length of the longest TraceID / SpanID string a carrier holds.
MaxIdLen == 2

\* Latest reading of the system clock, and latest time a caller passes in.
MaxClock == 1

\* Number of ReporterThread::stop calls (the one of Drop included) in one run.
MaxStopCalls == 2

\* Number of SpanContext::clone calls in one run.
MaxClones == 2

Handles == 1..MaxSpans

VARIABLES
    \* ---- the completion channel and its producers (src/span.rs, src/span/mod.rs)
    spanState,      \* per Span value: where it is in its life
    ident,          \* per Span value: the span it is a value of (clones share it)
    tracerAlive,    \* the Tracer (which owns a sender of the channel) is not dropped
    queue,          \* FinishedSpans in the channel, oldest first
    sent,           \* every FinishedSpan the channel accepted, in order
    \* ---- the reporter (src/utils/reporter.rs)
    stopping,       \* the shared AtomicBool
    workerPc,       \* position of the OpenTracingReporter thread
    delivered,      \* spans the sink closure was invoked with, in order
    threadHandle,   \* ReporterThread.thread_handle is Some
    stopPc,         \* position of the thread calling ReporterThread::stop
    sleepLeft,      \* stop_delay, then what is left of thread::sleep(stop_delay)
    sentAtStop,     \* how many spans the channel had accepted when stop was called
    \* ---- span data (src/span/mod.rs, src/span_context/mod.rs, src/tracers/*.rs)
    backend,        \* the TracerInterface implementation the process is wired with
    spans,          \* per span: its life, its SpanContext and its reference list
    nOps,           \* references added and baggage items set so far
    refStep,        \* a reference_span call in progress, statement by statement
    \* ---- the global accessor (src/utils/global_tracer.rs)
    globalTracer,   \* static mut GLOBAL_TRACER: 0 is None, i is Some(Arc i)
    gtPc,           \* per thread: where it is in a GlobalTracer call
    gtInits,        \* the init calls that returned: thread, Arc stored, Arc returned
    gtLast,         \* the last GlobalTracer call that ended and how
    \* ---- carriers (src/carrier.rs, src/tracers/file.rs)
    carCall,        \* the extract or inject call made: its format, context and carrier
    carrier,        \* the MapCarrier handed to the call
    carResult,      \* what the call returned, or that it panicked
    \* ---- one span, start to file (src/span/mod.rs, src/span/log.rs, src/tracers/file.rs)
    clock,          \* what SystemTime::now() returns
    options,        \* the StartOptions being built
    span,           \* the Span
    channel,        \* the FinishedSpans sent and not yet received
    output,         \* what write_trace wrote to the file
    baggageOrder,   \* the baggage keys of the span, in the order they first went in
    lifeOps,        \* calls made on the StartOptions and on the span so far
    \* ---- repeated stop calls (src/utils/reporter.rs)
    stopCalls,      \* ReporterThread::stop calls entered so far
    reporterDropped,\* the ReporterThread value was dropped
    \* ---- SpanContext::clone (src/span_context/mod.rs, impl_context.rs)
    heap,           \* the heap: address -> the baggage map or backend context there
    contexts,       \* the SpanContext values: the addresses of their two fields
    \* ---- FailSpan (src/utils/fail.rs)
    returned        \* what the last fail_span call returned

chanVars == <<spanState, ident, tracerAlive, queue, sent>>
repVars == <<stopping, workerPc, delivered, threadHandle, stopPc, sleepLeft, sentAtStop>>
dataVars == <<backend, spans, nOps, refStep>>
gtVars == <<globalTracer, gtPc, gtInits, gtLast>>
carVars == <<carCall, carrier, carResult>>
lifeVars == <<clock, options, span, channel, output, baggageOrder, lifeOps>>
stopLogVars == <<stopCalls, reporterDropped>>
heapVars == <<heap, contexts>>
failVars == <<returned>>
extVars == <<lifeVars, stopLogVars, heapVars, failVars>>
auxVars == <<gtVars, carVars, extVars>>
vars == <<chanVars, repVars, dataVars, auxVars>>

\* ---------------------------------------------------------------- helpers

\* A Span value that still exists holds a clone of the tracer's sender.
LiveStates == {"building", "auto"}

\* The receiver is owned by the worker's closure: it lives as long as the thread.
ReceiverAlive == workerPc \notin {"done", "panicked"}

\* Some sender of the channel exists: the tracer's, or a live span's.
SendersAlive == tracerAlive \/ \E h \in Handles : spanState[h] \in LiveStates

\* The next Span value to create (values are numbered in creation order).
Born == {h \in Handles : spanState[h] # "none"}
NextHandle == Cardinality(Born) + 1

\* ---------------------------------------------------------------- channel

\* Sender::send on an unbounded channel: fails only when the receiver is gone.
ChannelSend(q, alive, h) ==
    IF alive THEN [ok |-> TRUE, queue |-> Append(q, h)]
             ELSE [ok |-> FALSE, queue |-> q]

\* (mutant of ChannelRecv) a channel that hands out the newest span first.
ChannelRecvNewest(q) == [span |-> q[Len(q)], rest |-> SubSeq(q, 1, Len(q) - 1)]

\* Receiver::recv_timeout returning Ok: the oldest span leaves the channel.
ChannelRecv(q) == [span |-> Head(q), rest |-> Tail(q)]

\* --------------------------------------------------------------- producers

\* Tracer::span: a new Span with fresh identifiers and a clone of the sender.
TracerSpan ==
    /\ tracerAlive
    /\ NextHandle \in Handles
    /\ spanState' = [spanState EXCEPT ![NextHandle] = "building"]
    /\ ident' = [ident EXCEPT ![NextHandle] = NextHandle]
    /\ UNCHANGED <<tracerAlive, queue, sent, repVars, dataVars, auxVars>>

\* #[derive(Clone)] on Span and on AutoFinishingSpan: a second value of one span.
SpanClone(h) ==
    /\ spanState[h] \in LiveStates
    /\ NextHandle \in Handles
    /\ spanState' = [spanState EXCEPT ![NextHandle] = spanState[h]]
    /\ ident' = [ident EXCEPT ![NextHandle] = ident[h]]
    /\ UNCHANGED <<tracerAlive, queue, sent, repVars, dataVars, auxVars>>

\* Span::auto_finish: the Span moves into an AutoFinishingSpan.
AutoFinish(h) ==
    /\ spanState[h] = "building"
    /\ spanState' = [spanState EXCEPT ![h] = "auto"]
    /\ UNCHANGED <<ident, tracerAlive, queue, sent, repVars, dataVars, auxVars>>

\* (mutant of Finish) a finish that unwraps the send result instead of returning it.
FinishUnwrap(h) ==
    /\ spanState[h] = "building"
    /\ LET r == ChannelSend(queue, ReceiverAlive, h) IN
        /\ queue' = r.queue
        /\ sent' = IF r.ok THEN Append(sent, h) ELSE sent
        /\ spanState' = [spanState EXCEPT ![h] = IF r.ok THEN "finished" ELSE "panicked"]
    /\ UNCHANGED <<ident, tracerAlive, repVars, dataVars, auxVars>>

\* Span::finish: consumes the Span, sends its FinishedSpan, returns Ok or SendError.
Finish(h) ==
    /\ spanState[h] = "building"
    /\ LET r == ChannelSend(queue, ReceiverAlive, h) IN
        /\ queue' = r.queue
        /\ sent' = IF r.ok THEN Append(sent, h) ELSE sent
        /\ spanState' = [spanState EXCEPT ![h] = IF r.ok THEN "finished" ELSE "failed"]
    /\ UNCHANGED <<ident, tracerAlive, repVars, dataVars, auxVars>>

\* (mutant of DropAuto) a wrapper whose drop discards the inner Span.
DropAutoNoFinish(h) ==
    /\ spanState[h] = "auto"
    /\ spanState' = [spanState EXCEPT ![h] = "dropped"]
    /\ UNCHANGED <<ident, tracerAlive, queue, sent, repVars, dataVars, auxVars>>

\* (mutant of DropAuto) a drop that ignores the result of finish.
DropAutoIgnore(h) ==
    /\ spanState[h] = "auto"
    /\ LET r == ChannelSend(queue, ReceiverAlive, h) IN
        /\ queue' = r.queue
        /\ sent' = IF r.ok THEN Append(sent, h) ELSE sent
        /\ spanState' = [spanState EXCEPT ![h] = IF r.ok THEN "finished" ELSE "failed"]
    /\ UNCHANGED <<ident, tracerAlive, repVars, dataVars, auxVars>>

\* Drop for AutoFinishingSpan: take the Span out, finish().expect(..), a panic
\* when the send fails.
DropAuto(h) ==
    /\ spanState[h] = "auto"
    /\ LET r == ChannelSend(queue, ReceiverAlive, h) IN
        /\ queue' = r.queue
        /\ sent' = IF r.ok THEN Append(sent, h) ELSE sent
        /\ spanState' = [spanState EXCEPT ![h] = IF r.ok THEN "finished" ELSE "panicked"]
    /\ UNCHANGED <<ident, tracerAlive, repVars, dataVars, auxVars>>

\* (mutant of DropSpan) a Span that finishes itself when it goes out of scope.
DropSpanSends(h) ==
    /\ spanState[h] = "building"
    /\ LET r == ChannelSend(queue, ReceiverAlive, h) IN
        /\ queue' = r.queue
        /\ sent' = IF r.ok THEN Append(sent, h) ELSE sent
    /\ spanState' = [spanState EXCEPT ![h] = "dropped"]
    /\ UNCHANGED <<ident, tracerAlive, repVars, dataVars, auxVars>>

\* A Span going out of scope without finish: nothing is sent.
DropSpan(h) ==
    /\ spanState[h] = "building"
    /\ spanState' = [spanState EXCEPT ![h] = "dropped"]
    /\ UNCHANGED <<ident, tracerAlive, queue, sent, repVars, dataVars, auxVars>>

\* The Tracer is dropped, and with it the tracer's sender.
DropTracer ==
    /\ tracerAlive
    /\ tracerAlive' = FALSE
    /\ UNCHANGED <<spanState, ident, queue, sent, repVars, dataVars, auxVars>>

\* ------------------------------------------------------------------ worker

\* while !inner_stopping.load(..): enter the loop body, or leave the loop.
WorkerCheck ==
    /\ workerPc = "check"
    /\ workerPc' = IF stopping THEN "done" ELSE "recv"
    /\ UNCHANGED <<chanVars, stopping, delivered, threadHandle, stopPc, sleepLeft, sentAtStop, dataVars, auxVars>>

\* (mutant of WorkerRecv) a receive that hands the sink the oldest span and
\* leaves it in the channel.
WorkerRecvPeek ==
    /\ workerPc = "recv"
    /\ queue # <<>>
    /\ delivered' = Append(delivered, ChannelRecv(queue).span)
    /\ workerPc' = "sink"
    /\ UNCHANGED <<chanVars, stopping, threadHandle, stopPc,
                   sleepLeft, sentAtStop, dataVars, auxVars>>

\* recv_timeout returned Ok(span): reporter(span) is invoked.
WorkerRecv ==
    /\ workerPc = "recv"
    /\ queue # <<>>
    /\ LET r == ChannelRecv(queue) IN
        /\ queue' = r.rest
        /\ delivered' = Append(delivered, r.span)
    /\ workerPc' = "sink"
    /\ UNCHANGED <<spanState, ident, tracerAlive, sent, stopping, threadHandle, stopPc,
                   sleepLeft, sentAtStop, dataVars, auxVars>>

\* The sink closure returns: back to the loop condition.
WorkerSinkReturn ==
    /\ workerPc = "sink"
    /\ workerPc' = "check"
    /\ UNCHANGED <<chanVars, stopping, delivered, threadHandle, stopPc, sleepLeft, sentAtStop, dataVars, auxVars>>

\* recv_timeout returned Err(Timeout): continue.
WorkerTimeout ==
    /\ workerPc = "recv"
    /\ queue = <<>>
    /\ SendersAlive
    /\ workerPc' = "check"
    /\ UNCHANGED <<chanVars, stopping, delivered, threadHandle, stopPc, sleepLeft, sentAtStop, dataVars, auxVars>>

\* (mutant of WorkerDisconnected) a worker that takes a disconnected channel for
\* a timeout.
WorkerDisconnectedContinue ==
    /\ workerPc = "recv"
    /\ queue = <<>>
    /\ ~SendersAlive
    /\ workerPc' = "check"
    /\ UNCHANGED <<chanVars, stopping, delivered, threadHandle, stopPc, sleepLeft, sentAtStop, dataVars, auxVars>>

\* recv_timeout returned Err(Disconnected): panic!("Failed to receive span").
WorkerDisconnected ==
    /\ workerPc = "recv"
    /\ queue = <<>>
    /\ ~SendersAlive
    /\ workerPc' = "panicked"
    /\ UNCHANGED <<chanVars, stopping, delivered, threadHandle, stopPc, sleepLeft, sentAtStop, dataVars, auxVars>>

\* -------------------------------------------------------------------- stop

\* ReporterThread::stop (also run by Drop): take the handle, or do nothing.
StopCall ==
    /\ stopPc \in {"idle", "returned"}
    /\ IF threadHandle
         THEN /\ threadHandle' = FALSE
              /\ stopPc' = "sleeping"
              /\ sentAtStop' = Len(sent)
         ELSE /\ stopPc' = "returned"
              /\ UNCHANGED <<threadHandle, sentAtStop, dataVars, auxVars>>
    /\ UNCHANGED <<chanVars, stopping, workerPc, delivered, sleepLeft, dataVars, auxVars>>

\* thread::sleep(self.stop_delay): one tick of the delay passes.
StopSleep ==
    /\ stopPc = "sleeping"
    /\ sleepLeft > 0
    /\ sleepLeft' = sleepLeft - 1
    /\ UNCHANGED <<chanVars, stopping, workerPc, delivered, threadHandle, stopPc, sentAtStop, dataVars, auxVars>>

\* self.stopping.store(true): the delay is over.
StopSetFlag ==
    /\ stopPc = "sleeping"
    /\ sleepLeft = 0
    /\ stopping' = TRUE
    /\ stopPc' = "joining"
    /\ UNCHANGED <<chanVars, workerPc, delivered, threadHandle, sleepLeft, sentAtStop, dataVars, auxVars>>

\* (mutant of StopJoin) a stop that sets the flag and returns without joining.
StopJoinNoWait ==
    /\ stopPc = "joining"
    /\ stopPc' = "returned"
    /\ UNCHANGED <<chanVars, stopping, workerPc, delivered, threadHandle, sleepLeft, sentAtStop, dataVars, auxVars>>

\* thread.join() returns once the worker has ended; Err (worker panicked) panics.
StopJoin ==
    /\ stopPc = "joining"
    /\ workerPc \in {"done", "panicked"}
    /\ stopPc' = IF workerPc = "done" THEN "returned" ELSE "panicked"
    /\ UNCHANGED <<chanVars, stopping, workerPc, delivered, threadHandle, sleepLeft, sentAtStop, dataVars, auxVars>>

\* ----------------------------------------------------------- specification

InitReporter ==
    /\ spanState = [h \in Handles |-> "none"]
    /\ ident = [h \in Handles |-> 0]
    /\ tracerAlive = TRUE
    /\ queue = <<>>
    /\ sent = <<>>
    /\ stopping = FALSE
    /\ workerPc = "check"
    /\ delivered = <<>>
    /\ threadHandle = TRUE
    /\ stopPc = "idle"
    /\ sleepLeft \in 0..MaxStopDelay
    /\ sentAtStop = 0

Next ==
    \/ TracerSpan
    \/ \E h \in Handles : SpanClone(h)
    \/ \E h \in Handles : AutoFinish(h)
    \/ \E h \in Handles : Finish(h)
    \/ \E h \in Handles : DropAuto(h)
    \/ \E h \in Handles : DropSpan(h)
    \/ DropTracer
    \/ WorkerCheck
    \/ WorkerRecv
    \/ WorkerSinkReturn
    \/ WorkerTimeout
    \/ WorkerDisconnected
    \/ StopCall
    \/ StopSleep
    \/ StopSetFlag
    \/ StopJoin

\* ------------------------------------------------------- the global accessor

Threads == 1..MaxThreads

\* GLOBAL_TRACER = None, no call made.
GlobalIdle ==
    /\ globalTracer = 0
    /\ gtPc = [t \in Threads |-> "idle"]
    /\ gtInits = {}
    /\ gtLast = [op |-> "none", thread |-> 0, panicked |-> FALSE, value |-> 0]

\* No extract or inject call made.
CarrierIdle ==
    /\ carCall = <<>>
    /\ carrier = <<>>
    /\ carResult = <<>>

\* No StartOptions, no span, nothing written.
LifeIdle ==
    /\ clock = 0
    /\ options = [references |-> <<>>, start_time |-> <<>>]
    /\ span = [state |-> "none"]
    /\ channel = <<>>
    /\ output = <<>>
    /\ baggageOrder = <<>>
    /\ lifeOps = 0

\* No stop call entered, the ReporterThread value alive.
StopLogIdle ==
    /\ stopCalls = 0
    /\ reporterDropped = FALSE

\* No SpanContext allocated.
HeapIdle ==
    /\ heap = <<>>
    /\ contexts = <<>>

\* No fail_span call made.
FailIdle == returned = <<>>

ExtIdle == LifeIdle /\ StopLogIdle /\ HeapIdle /\ FailIdle

\* The parts of the process the reporter specification does not run.
AuxIdle == GlobalIdle /\ CarrierIdle /\ ExtIdle

\* The span-data variables at rest.
DataIdle ==
    /\ backend = "Noop"
    /\ spans = <<>>
    /\ nOps = 0
    /\ refStep = <<>>

Init == InitReporter /\ DataIdle /\ AuxIdle

\* The completion channel, its producers and the ReporterThread.
Spec == Init /\ [][Next]_vars

\* ------------------------------------------------------ claims on the reporter

\* C1: once ReporterThread::stop has returned, the sink is never invoked again,
\* whatever the producers do afterwards.
C1_NoSinkAfterStop == [][stopPc = "returned" => delivered' = delivered]_vars

\* C1 witness: stop has returned after the sink ran, and a producer has finished a
\* span against the stopped reporter since.
C1_Witness ==
    /\ stopPc = "returned"
    /\ delivered # <<>>
    /\ \E h \in Handles : spanState[h] = "failed"

\* How often the sink was invoked with the span value h.
SinkCalls(h) == Cardinality({j \in DOMAIN delivered : delivered[j] = h})

\* C2 (as claimed): every span whose finish returned Ok before stop was called has
\* been passed to the sink exactly once by the time stop returns.
C2_DrainedWhenStopReturns ==
    stopPc = "returned" => \A i \in 1..sentAtStop : SinkCalls(sent[i]) = 1

\* C3 (as claimed): when the worker leaves its loop because the flag is set, no
\* accepted FinishedSpan is left in the channel: every Ok finish has a sink call.
C3_NothingLeftUndelivered ==
    workerPc = "done" =>
        /\ queue = <<>>
        /\ \A i \in DOMAIN sent : SinkCalls(sent[i]) >= 1

\* C4 (as claimed): at most one FinishedSpan of a given span ever reaches the
\* channel, whatever sequence of finish, auto_finish, drop and clone is used.
C4_OneFinishedSpanPerSpan ==
    \A i, j \in DOMAIN sent : ident[sent[i]] = ident[sent[j]] => i = j

\* C5: Span::finish returns Err(SendError) when the receiver is gone, without a
\* panic and without enqueueing; with the receiver alive it returns Ok and
\* enqueues exactly one FinishedSpan.
C5_FinishResult ==
    [][\A h \in Handles :
        (spanState[h] = "building" /\ spanState'[h] \notin {"building", "auto", "dropped"})
            => IF ReceiverAlive
                 THEN spanState'[h] = "finished" /\ queue' = Append(queue, h)
                 ELSE spanState'[h] = "failed" /\ queue' = queue]_vars

\* C5 witness: one finish has returned Ok and another has returned SendError.
C5_Witness ==
    /\ \E h \in Handles : spanState[h] = "finished"
    /\ \E h \in Handles : spanState[h] = "failed"

\* C6: the sink sees the spans in the order the channel accepted them: the
\* delivered sequence is a prefix of the accepted sequence.
C6_FifoDelivery ==
    /\ Len(delivered) <= Len(sent)
    /\ \A i \in DOMAIN delivered : delivered[i] = sent[i]

\* C6 witness: two spans were waiting in the channel together and both were
\* delivered.
C6_Witness == Len(delivered) >= 2 /\ queue # <<>>

\* ------------------------------------------- claims on finishing and dropping

NextAuto ==
    \/ TracerSpan
    \/ \E h \in Handles : AutoFinish(h)
    \/ \E h \in Handles : DropAuto(h)
    \/ DropTracer
    \/ WorkerCheck
    \/ WorkerRecv
    \/ WorkerSinkReturn
    \/ WorkerTimeout
    \/ WorkerDisconnected
    \/ StopCall
    \/ StopSleep
    \/ StopSetFlag
    \/ StopJoin

\* The scoped use of spans: every span is wrapped by auto_finish and ends with
\* the drop of its wrapper.
SpecAuto == Init /\ [][NextAuto]_vars

\* How many FinishedSpans of Span value h the channel accepted.
SentCount(h) == Cardinality({i \in DOMAIN sent : sent[i] = h})

\* C13: an AutoFinishingSpan holds its Span, not yet finished, until it is
\* dropped; the drop finishes that Span once: with the receiver alive exactly one
\* FinishedSpan of the wrapper is enqueued, and never a second one.
C13_AutoFinishOnce ==
    [][\A h \in Handles :
        /\ spanState[h] = "auto" => SentCount(h) = 0
        /\ SentCount(h)' <= 1
        /\ (spanState[h] = "auto" /\ spanState'[h] # "auto") =>
            /\ spanState'[h] \in {"finished", "panicked"}
            /\ ReceiverAlive =>
                /\ spanState'[h] = "finished"
                /\ queue' = Append(queue, h)
                /\ sent' = Append(sent, h)]_vars

\* C13 witness (every span of SpecAuto is wrapped, so a finished one was finished
\* by its wrapper's drop): a dropped wrapper's span reached the sink while
\* another wrapper still holds its span.
C13_Witness ==
    \E h, g \in Handles :
        /\ spanState[h] = "finished"
        /\ \E i \in DOMAIN delivered : delivered[i] = h
        /\ spanState[g] = "auto"

\* C14: with the receiver gone, dropping an AutoFinishingSpan panics the thread,
\* and an explicit Span::finish returns the error without a panic.
C14_FinishFailureAsymmetry ==
    [][\A h \in Handles :
        ~ReceiverAlive =>
            /\ (spanState[h] = "auto" /\ spanState'[h] # "auto") =>
                    spanState'[h] = "panicked" /\ queue' = queue /\ sent' = sent
            /\ (spanState[h] = "building" /\ spanState'[h] \notin {"building", "auto", "dropped"}) =>
                    spanState'[h] = "failed" /\ queue' = queue /\ sent' = sent]_vars

\* C14 witness: after the worker ended, one wrapper was dropped (a panic) and one
\* span was finished by hand (an error value).
C14_Witness ==
    /\ ~ReceiverAlive
    /\ \E h \in Handles : spanState[h] = "panicked"
    /\ \E h \in Handles : spanState[h] = "failed"

\* C15: a Span dropped without finish is in no FinishedSpan: what the channel
\* accepted, holds, and what the sink saw are spans finished by Span::finish or by
\* the drop of their AutoFinishingSpan.
C15_DroppedNeverReported ==
    /\ \A h \in Handles :
        spanState[h] = "dropped" =>
            /\ SentCount(h) = 0
            /\ \A i \in DOMAIN queue : queue[i] # h
            /\ \A i \in DOMAIN delivered : delivered[i] # h
    /\ \A i \in DOMAIN sent : spanState[sent[i]] \in {"finished"}
    /\ \A i \in DOMAIN queue : spanState[queue[i]] \in {"finished"}
    /\ \A i \in DOMAIN delivered : spanState[delivered[i]] \in {"finished"}

\* C15 witness: one span was dropped unfinished while the sink has been handed
\* another one.
C15_Witness ==
    /\ \E h \in Handles : spanState[h] = "dropped"
    /\ delivered # <<>>

\* =============================================================== span data

Keys == {"a", "b"}
Values == {"x", "y"}
Kinds == {"ChildOf", "FollowsFrom"}

\* The backends whose contexts a process can be wired with: the three tracers of
\* the crate and the TestContext of the span tests, whose hook does nothing.
Backends == {"File", "Noop", "Null", "Test"}

\* HashMap::new().
EmptyBaggage == [k \in {} |-> "x"]

\* Every baggage map over Keys and Values.
Baggages == UNION {[D -> Values] : D \in SUBSET Keys}

\* HashMap::insert: add the key, or overwrite its value.
Insert(b, k, v) == [x \in DOMAIN b \cup {k} |-> IF x = k THEN v ELSE b[x]]

\* SpanContext::new: the backend context boxed, no baggage.
SpanContext_new(inner) == [inner |-> inner, baggage |-> EmptyBaggage]

\* SpanContext::set_baggage_item.
SpanContext_set_baggage_item(ctx, k, v) == [ctx EXCEPT !.baggage = Insert(@, k, v)]

\* (mutant of FileTracerContext_reference_span) a hook that takes the trace id
\* of any parent, whatever its backend.
FileTracerContext_reference_span_lenient(inner, ref) ==
    [panic |-> FALSE, inner |-> [inner EXCEPT !.trace_id = ref.context.inner.trace_id]]

\* SpanReferenceAware for FileTracerContext: downcast the parent, take its trace id.
FileTracerContext_reference_span(inner, ref) ==
    IF ref.context.inner.backend = "File"
      THEN [panic |-> FALSE, inner |-> [inner EXCEPT !.trace_id = ref.context.inner.trace_id]]
      ELSE [panic |-> TRUE, inner |-> inner]

\* (mutant of NoopTracerContext_reference_span) a hook that checks the parent but
\* keeps its own trace id.
NoopTracerContext_reference_span_keep(inner, ref) ==
    IF ref.context.inner.backend = "Noop"
      THEN [panic |-> FALSE, inner |-> inner]
      ELSE [panic |-> TRUE, inner |-> inner]

\* SpanReferenceAware for NoopTracerContext.
NoopTracerContext_reference_span(inner, ref) ==
    IF ref.context.inner.backend = "Noop"
      THEN [panic |-> FALSE, inner |-> [inner EXCEPT !.trace_id = ref.context.inner.trace_id]]
      ELSE [panic |-> TRUE, inner |-> inner]

\* SpanReferenceAware for NullTracerContext.
NullTracerContext_reference_span(inner, ref) ==
    IF ref.context.inner.backend = "Null"
      THEN [panic |-> FALSE, inner |-> [inner EXCEPT !.trace_id = ref.context.inner.trace_id]]
      ELSE [panic |-> TRUE, inner |-> inner]

\* SpanReferenceAware for the tests' TestContext: nothing.
TestContext_reference_span(inner, ref) == [panic |-> FALSE, inner |-> inner]

\* ImplContext::reference_span through the Box<dyn ImplContext>.
ImplContext_reference_span(inner, ref) ==
    CASE inner.backend = "File" -> FileTracerContext_reference_span(inner, ref)
      [] inner.backend = "Noop" -> NoopTracerContext_reference_span(inner, ref)
      [] inner.backend = "Null" -> NullTracerContext_reference_span(inner, ref)
      [] OTHER -> TestContext_reference_span(inner, ref)

\* SpanContext::reference_span: only the backend context is told.
SpanContext_reference_span(ctx, ref) ==
    LET r == ImplContext_reference_span(ctx.inner, ref) IN
    [panic |-> r.panic, context |-> [ctx EXCEPT !.inner = r.inner]]

\* Span::reference_span, first statement: self.context.reference_span(&reference).
HookStep(sp, ref) ==
    LET r == SpanContext_reference_span(sp.context, ref) IN
    IF r.panic THEN [sp EXCEPT !.state = "panicked"]
               ELSE [sp EXCEPT !.context = r.context]

\* (mutant of CopyItems) a baggage loop that leaves alone the keys the span
\* already holds.
CopyItemsKeepOwn(ctx, parent, keys) ==
    [ctx EXCEPT !.baggage =
        [k \in DOMAIN ctx.baggage \cup keys |->
            IF k \in DOMAIN ctx.baggage THEN ctx.baggage[k] ELSE parent.baggage[k]]]

\* for (key, value) in parent.baggage_items() { self.context.set_baggage_item(..) }
RECURSIVE CopyItems(_, _, _)
CopyItems(ctx, parent, keys) ==
    IF keys = {} THEN ctx
    ELSE LET k == CHOOSE x \in keys : TRUE IN
         CopyItems(SpanContext_set_baggage_item(ctx, k, parent.baggage[k]), parent, keys \ {k})

\* (mutant of CopyStep) a baggage loop written in the ChildOf arm only.
CopyStepChildOnly(sp, ref) ==
    IF ref.kind = "ChildOf"
      THEN [sp EXCEPT !.context = CopyItems(@, ref.context, DOMAIN ref.context.baggage)]
      ELSE sp

\* Span::reference_span, second statement: the baggage loop.
CopyStep(sp, ref) ==
    [sp EXCEPT !.context = CopyItems(@, ref.context, DOMAIN ref.context.baggage)]

\* Span::reference_span, third statement: self.references.push(reference).
PushStep(sp, ref) == [sp EXCEPT !.references = Append(@, ref)]

\* (mutant of ReferenceSpanBody) the baggage loop placed before the hook.
ReferenceSpanBodyCopyFirst == <<"copy", "hook", "push">>

\* The statements of Span::reference_span, in program order.
ReferenceSpanBody == <<"hook", "copy", "push">>

ExecStatement(sp, ref, stmt) ==
    CASE stmt = "hook" -> HookStep(sp, ref)
      [] stmt = "copy" -> CopyStep(sp, ref)
      [] stmt = "push" -> PushStep(sp, ref)

\* Run the body from statement i on; a panic unwinds out of it.
RECURSIVE RunFrom(_, _, _)
RunFrom(sp, ref, i) ==
    IF i > Len(ReferenceSpanBody) \/ sp.state = "panicked" THEN sp
    ELSE RunFrom(ExecStatement(sp, ref, ReferenceSpanBody[i]), ref, i + 1)

\* Span::reference_span.
Span_reference_span(sp, ref) == RunFrom(sp, ref, 1)

\* Span::new: the references of the StartOptions are applied in order.
RECURSIVE ApplyReferences(_, _)
ApplyReferences(sp, refs) ==
    IF refs = <<>> \/ sp.state = "panicked" THEN sp
    ELSE ApplyReferences(Span_reference_span(sp, Head(refs)), Tail(refs))

Span_new(context, refs) ==
    ApplyReferences([state |-> "building", context |-> context, references |-> <<>>], refs)

\* (mutant of Span_set_baggage_item) contexts shared with the reference list
\* instead of owned: the write shows in every stored parent context.
Span_set_baggage_item_shared(sp, k, v) ==
    [sp EXCEPT !.context = SpanContext_set_baggage_item(@, k, v),
               !.references = [i \in DOMAIN @ |->
                    [@[i] EXCEPT !.context = SpanContext_set_baggage_item(@, k, v)]]]

\* (mutant of Span_set_baggage_item) a set_baggage_item that starts the baggage
\* afresh with the one item.
Span_set_baggage_item_reset(sp, k, v) ==
    [sp EXCEPT !.context.baggage = Insert(EmptyBaggage, k, v)]

\* Span::set_baggage_item.
Span_set_baggage_item(sp, k, v) ==
    [sp EXCEPT !.context = SpanContext_set_baggage_item(@, k, v)]

\* A context of the process's own backend that belongs to no span of the run (one
\* extracted from a carrier, or built by hand as the tests do), with one item.
RemoteContext ==
    [inner |-> [backend |-> backend, trace_id |-> 0, span_id |-> 0],
     baggage |-> Insert(EmptyBaggage, "a", "y")]

\* Contexts a caller can hand in as a parent: a clone of a live span's context or
\* a remote context.
ParentContexts ==
    {spans[i].context : i \in {j \in DOMAIN spans : spans[j].state = "building"}}
        \cup {RemoteContext}

References == [kind : Kinds, context : ParentContexts]

\* The reference lists a StartOptions can hold.
StartReferences == UNION {[1..n -> References] : n \in 0..(MaxOps - nOps)}

\* Tracer::span_with_options: fresh random ids (each span draws the ids no other
\* span has), then Span::new.
DataNewSpan ==
    /\ Len(spans) < MaxDataSpans
    /\ \E refs \in StartReferences :
        LET n == Len(spans) + 1
            inner == [backend |-> backend, trace_id |-> n, span_id |-> n] IN
        /\ spans' = Append(spans, Span_new(SpanContext_new(inner), refs))
        /\ nOps' = nOps + Len(refs)
    /\ UNCHANGED <<backend, refStep, chanVars, repVars, auxVars>>

\* Span::child_of.
DataChildOf(s, parent) ==
    /\ spans[s].state = "building"
    /\ nOps < MaxOps
    /\ spans' = [spans EXCEPT ![s] =
                    Span_reference_span(@, [kind |-> "ChildOf", context |-> parent])]
    /\ nOps' = nOps + 1
    /\ UNCHANGED <<backend, refStep, chanVars, repVars, auxVars>>

\* Span::follows.
DataFollows(s, parent) ==
    /\ spans[s].state = "building"
    /\ nOps < MaxOps
    /\ spans' = [spans EXCEPT ![s] =
                    Span_reference_span(@, [kind |-> "FollowsFrom", context |-> parent])]
    /\ nOps' = nOps + 1
    /\ UNCHANGED <<backend, refStep, chanVars, repVars, auxVars>>

\* (mutant of DataSetBaggageItem) contexts handed to child_of and follows by
\* reference instead of as clones: the write shows in the context every child
\* stored.
DataSetBaggageItemAliased(s, k, v) ==
    /\ spans[s].state = "building"
    /\ nOps < MaxOps
    /\ spans' = [t \in DOMAIN spans |->
                    IF t = s THEN Span_set_baggage_item(spans[t], k, v)
                    ELSE [spans[t] EXCEPT !.references =
                            [i \in DOMAIN @ |->
                                IF @[i].context.inner.span_id = s
                                  THEN [@[i] EXCEPT !.context =
                                            SpanContext_set_baggage_item(@, k, v)]
                                  ELSE @[i]]]]
    /\ nOps' = nOps + 1
    /\ UNCHANGED <<backend, refStep, chanVars, repVars, auxVars>>

\* Span::set_baggage_item.
DataSetBaggageItem(s, k, v) ==
    /\ spans[s].state = "building"
    /\ nOps < MaxOps
    /\ spans' = [spans EXCEPT ![s] = Span_set_baggage_item(@, k, v)]
    /\ nOps' = nOps + 1
    /\ UNCHANGED <<backend, refStep, chanVars, repVars, auxVars>>

\* The channel and the reporter at rest.
ReporterIdle == InitReporter /\ sleepLeft = 0

InitSpan ==
    /\ ReporterIdle
    /\ AuxIdle
    /\ backend \in Backends
    /\ spans = <<>>
    /\ nOps = 0
    /\ refStep = <<>>

NextSpan ==
    \/ DataNewSpan
    \/ \E s \in DOMAIN spans, c \in ParentContexts : DataChildOf(s, c)
    \/ \E s \in DOMAIN spans, c \in ParentContexts : DataFollows(s, c)
    \/ \E s \in DOMAIN spans, k \in Keys, v \in Values : DataSetBaggageItem(s, k, v)

\* Spans, their contexts, references and baggage.
SpecSpan == InitSpan /\ [][NextSpan]_vars

\* ------------------------------------------- reference_span, statement by statement

\* The spans a reference can be added to: any baggage, no reference yet or one.
StepSpans ==
    {[state |-> "building",
      context |-> [inner |-> [backend |-> backend, trace_id |-> 1, span_id |-> 1],
                   baggage |-> b],
      references |-> rs] :
        b \in Baggages, rs \in {<<>>, <<[kind |-> "ChildOf", context |-> RemoteContext]>>}}

\* The references that can be added: either kind, any baggage, a parent of the
\* process's backend or of another one (the OtherContext of the noop tests).
StepReferences ==
    {[kind |-> k,
      context |-> [inner |-> [backend |-> pb, trace_id |-> 2, span_id |-> 2],
                   baggage |-> b]] :
        k \in Kinds, pb \in {backend, "Other"}, b \in Baggages}

\* The statement the call is at, or "return".
StepStatement ==
    IF refStep.pc <= Len(ReferenceSpanBody) /\ refStep.span.state = "building"
      THEN ReferenceSpanBody[refStep.pc]
      ELSE "return"

\* self.context.reference_span(&reference)
StepHook ==
    /\ StepStatement = "hook"
    /\ refStep' = [refStep EXCEPT !.span = HookStep(@, refStep.ref),
                                  !.pc = @ + 1,
                                  !.hooks = @ + 1,
                                  !.executed = Append(@, "hook")]
    /\ UNCHANGED <<backend, spans, nOps, chanVars, repVars, auxVars>>

\* the baggage loop
StepCopy ==
    /\ StepStatement = "copy"
    /\ refStep' = [refStep EXCEPT !.span = CopyStep(@, refStep.ref),
                                  !.pc = @ + 1,
                                  !.executed = Append(@, "copy")]
    /\ UNCHANGED <<backend, spans, nOps, chanVars, repVars, auxVars>>

\* self.references.push(reference)
StepPush ==
    /\ StepStatement = "push"
    /\ refStep' = [refStep EXCEPT !.span = PushStep(@, refStep.ref),
                                  !.pc = @ + 1,
                                  !.executed = Append(@, "push")]
    /\ UNCHANGED <<backend, spans, nOps, chanVars, repVars, auxVars>>

InitRefSteps ==
    /\ ReporterIdle
    /\ AuxIdle
    /\ backend \in Backends
    /\ spans = <<>>
    /\ nOps = 0
    /\ \E sp \in StepSpans, r \in StepReferences :
        refStep = [pc |-> 1, span |-> sp, ref |-> r, start |-> sp, hooks |-> 0,
                   executed |-> <<>>]

NextRefSteps == StepHook \/ StepCopy \/ StepPush

\* One call of Span::reference_span on any span with any reference.
SpecRefSteps == InitRefSteps /\ [][NextRefSteps]_vars

\* --------------------------------------------------- claims on span data

\* The parent's entries laid over the span's own (the parent wins a collision).
Overlay(own, parent) ==
    [k \in DOMAIN own \cup DOMAIN parent |-> IF k \in DOMAIN parent THEN parent[k] ELSE own[k]]

\* The references span s has before a step (none when the step creates it).
RefsBefore(s) == IF s \in DOMAIN spans THEN spans[s].references ELSE <<>>

\* C7: when a span takes a reference, by child_of, by follows or through the
\* StartOptions it is built with, every baggage entry of the referenced context is
\* in the span's baggage with the parent's value, whatever the kind (of several
\* references taken at construction the last one decides a shared key).
C7_BaggageForward ==
    [][\A s \in DOMAIN spans' :
        LET new == spans'[s].references
            bag == spans'[s].context.baggage IN
        Len(new) > Len(RefsBefore(s)) =>
            /\ \A k \in DOMAIN new[Len(new)].context.baggage :
                    k \in DOMAIN bag /\ bag[k] = new[Len(new)].context.baggage[k]
            /\ \A i \in (Len(RefsBefore(s)) + 1)..Len(new) :
                    DOMAIN new[i].context.baggage \subseteq DOMAIN bag]_vars

\* C7 witness: one span is a child of the remote context and carries its
\* baggage, and another follows that span and carries the same baggage.
C7_Witness ==
    \E s, t \in DOMAIN spans :
        LET rs == spans[s].references
            rt == spans[t].references IN
        /\ s # t
        /\ Len(rs) = 1 /\ rs[1].kind = "ChildOf"
        /\ Len(rt) = 1 /\ rt[1].kind = "FollowsFrom"
        /\ rt[1].context = spans[s].context
        /\ DOMAIN rt[1].context.baggage # {}
        /\ \A k \in DOMAIN rt[1].context.baggage :
                k \in DOMAIN spans[t].context.baggage
                /\ spans[t].context.baggage[k] = rt[1].context.baggage[k]

\* A step that is a set_baggage_item call: an operation that creates no span and
\* adds no reference.
IsSetBaggageStep ==
    /\ nOps' = nOps + 1
    /\ DOMAIN spans' = DOMAIN spans
    /\ \A s \in DOMAIN spans : Len(spans'[s].references) = Len(spans[s].references)

\* C8: set_baggage_item on a span changes that span's baggage only: every other
\* span (the parents it referenced among them) keeps its context, and the contexts
\* stored in the span's own reference list keep theirs.
C8_NoBackPropagation ==
    [][IsSetBaggageStep =>
        \E s \in DOMAIN spans :
            /\ \A t \in DOMAIN spans \ {s} : spans'[t] = spans[t]
            /\ spans'[s].references = spans[s].references
            /\ spans'[s].context.inner = spans[s].context.inner]_vars

\* C8 witness: a child of a context holding an item has set that key to another
\* value; the context it referenced still holds the old one.
C8_Witness ==
    \E s \in DOMAIN spans :
        /\ Len(spans[s].references) = 1
        /\ "a" \in DOMAIN spans[s].references[1].context.baggage
        /\ "a" \in DOMAIN spans[s].context.baggage
        /\ spans[s].context.baggage["a"] # spans[s].references[1].context.baggage["a"]

\* C9: reference_span runs the backend hook exactly once, then copies the baggage,
\* then records the reference: after the hook alone the span's baggage and
\* reference list are as before the call; after the copy the baggage is the
\* parent's laid over the span's and the list is still as before; the list grows
\* by the reference last.
C9_ReferenceProtocol ==
    LET e == refStep.executed
        st == refStep.start
        sp == refStep.span
        r == refStep.ref IN
    /\ e = SubSeq(<<"hook", "copy", "push">>, 1, Len(e))
    /\ refStep.hooks = (IF Len(e) >= 1 THEN 1 ELSE 0)
    /\ Len(e) = 1 =>
        /\ sp.context.baggage = st.context.baggage
        /\ sp.references = st.references
    /\ Len(e) = 2 =>
        /\ sp.context.baggage = Overlay(st.context.baggage, r.context.baggage)
        /\ sp.references = st.references
    /\ Len(e) = 3 =>
        /\ sp.context.baggage = Overlay(st.context.baggage, r.context.baggage)
        /\ sp.references = Append(st.references, r)

\* C9 witness: the call has returned on a span and a parent whose baggage collide
\* on one key and differ on another.
C9_Witness ==
    /\ refStep.executed = <<"hook", "copy", "push">>
    /\ DOMAIN refStep.start.context.baggage = {"a", "b"}
    /\ DOMAIN refStep.ref.context.baggage = {"a"}
    /\ refStep.start.context.baggage["a"] # refStep.ref.context.baggage["a"]
    /\ refStep.start.references # <<>>

\* C32: on a NoopTracer or FileTracer span, a reference to a context of another
\* backend panics in the hook: the hook is the only statement that ran, the call
\* is over, and the span's baggage, ids and reference list are as before the
\* call.
C32_ForeignParentPanics ==
    (/\ backend \in {"File", "Noop"}
     /\ refStep.ref.context.inner.backend # backend
     /\ refStep.executed # <<>>) =>
        /\ refStep.executed = <<"hook">>
        /\ refStep.span.state = "panicked"
        /\ StepStatement = "return"
        /\ refStep.span.context = refStep.start.context
        /\ refStep.span.references = refStep.start.references

\* C32 witness: a NoopTracer span with baggage and a reference has panicked on a
\* foreign parent that carries baggage the span does not have.
C32_Witness ==
    /\ backend = "Noop"
    /\ refStep.ref.context.inner.backend = "Other"
    /\ refStep.span.state = "panicked"
    /\ refStep.executed = <<"hook">>
    /\ refStep.start.references # <<>>
    /\ DOMAIN refStep.ref.context.baggage = {"a", "b"}
    /\ DOMAIN refStep.span.context.baggage = {"a"}

RealBackends == {"File", "Noop", "Null"}

\* C10: with the FileTracer, the NoopTracer or the NullTracer, a span that has
\* taken references has the trace id of the context it referenced (last).
C10_TraceIdInherited ==
    backend \in RealBackends =>
        \A s \in DOMAIN spans :
            LET rs == spans[s].references IN
            (spans[s].state = "building" /\ rs # <<>>) =>
                spans[s].context.inner.trace_id = rs[Len(rs)].context.inner.trace_id

\* C10 witness: a NoopTracer span that follows another span carries that span's
\* trace id instead of the one it was created with.
C10_Witness ==
    /\ backend = "Noop"
    /\ \E s \in DOMAIN spans :
        LET rs == spans[s].references IN
        /\ rs # <<>>
        /\ rs[Len(rs)].kind = "FollowsFrom"
        /\ rs[Len(rs)].context.inner.span_id \notin {0, s}
        /\ spans[s].context.inner.trace_id = rs[Len(rs)].context.inner.trace_id
        /\ spans[s].context.inner.trace_id # s

\* ------------------------------------------- GlobalTracer::init and ::get

\* The other parts of the process at rest.
RestIdle == ReporterIdle /\ DataIdle

\* GlobalTracer::init, `match GLOBAL_TRACER`: the unsynchronised read of the
\* static. Some(_) panics; None goes on to the assignment.
GtInitMatch(t) ==
    /\ gtPc[t] = "idle"
    /\ IF globalTracer = 0
         THEN /\ gtPc' = [gtPc EXCEPT ![t] = "store"]
              /\ UNCHANGED gtLast
         ELSE /\ gtPc' = [gtPc EXCEPT ![t] = "panicked"]
              /\ gtLast' = [op |-> "init", thread |-> t, panicked |-> TRUE, value |-> 0]
    /\ UNCHANGED <<globalTracer, gtInits, chanVars, repVars, dataVars, carVars, extVars>>

\* GlobalTracer::init, `GLOBAL_TRACER = Some(Arc::new(tracer))`: the
\* unsynchronised write. The Arc thread t allocates is instance t.
GtInitStore(t) ==
    /\ gtPc[t] = "store"
    /\ globalTracer' = t
    /\ gtPc' = [gtPc EXCEPT ![t] = "init_get"]
    /\ UNCHANGED <<gtInits, gtLast, chanVars, repVars, dataVars, carVars, extVars>>

\* GlobalTracer::init, last line: GlobalTracer::get() gives the return value.
GtInitReturn(t) ==
    /\ gtPc[t] = "init_get"
    /\ gtInits' = gtInits \cup {[thread |-> t, stored |-> t, returned |-> globalTracer]}
    /\ gtLast' = [op |-> "init", thread |-> t, panicked |-> FALSE, value |-> globalTracer]
    /\ gtPc' = [gtPc EXCEPT ![t] = "idle"]
    /\ UNCHANGED <<globalTracer, chanVars, repVars, dataVars, carVars, extVars>>

\* GlobalTracer::get: read the static, panic on None, clone the Arc.
GtGet(t) ==
    /\ gtPc[t] = "idle"
    /\ IF globalTracer = 0
         THEN /\ gtPc' = [gtPc EXCEPT ![t] = "panicked"]
              /\ gtLast' = [op |-> "get", thread |-> t, panicked |-> TRUE, value |-> 0]
         ELSE /\ gtLast' = [op |-> "get", thread |-> t, panicked |-> FALSE,
                            value |-> globalTracer]
              /\ UNCHANGED gtPc
    /\ UNCHANGED <<globalTracer, gtInits, chanVars, repVars, dataVars, carVars, extVars>>

InitGlobal == RestIdle /\ CarrierIdle /\ ExtIdle /\ GlobalIdle

NextGlobal ==
    \/ \E t \in Threads : GtInitMatch(t)
    \/ \E t \in Threads : GtInitStore(t)
    \/ \E t \in Threads : GtInitReturn(t)
    \/ \E t \in Threads : GtGet(t)

\* Threads calling GlobalTracer::init and GlobalTracer::get in any interleaving.
SpecGlobal == InitGlobal /\ [][NextGlobal]_vars

\* ---------------------------------------------- claims on the global accessor

\* C11: at most one call of GlobalTracer::init ever returns normally; a further
\* call panics and leaves the stored instance as it was, and a get before any
\* init panics.
C11_SingleInit ==
    /\ Cardinality(gtInits) <= 1
    /\ (gtLast.op = "init" /\ gtLast.panicked) => globalTracer # 0
    /\ (gtLast.op = "get" /\ gtLast.panicked) => gtInits = {}

\* C12: once an init has returned, every get returns the instance that init
\* stored and returned.
C12_SameInstance ==
    \A i \in gtInits :
        /\ i.returned = i.stored
        /\ globalTracer = i.stored
        /\ (gtLast.op = "get") => (~gtLast.panicked /\ gtLast.value = i.stored)

\* ===================================================== carriers (FileTracer)

\* Strings are sequences: an identifier value is a sequence of characters, a key
\* is a sequence of parts, so that format!("{}{}", prefix, key) is \o and
\* starts_with is a test of the first part.
TRACE_ID_KEY == <<"TraceID">>
SPAN_ID_KEY == <<"SpanID">>
BAGGAGE_KEY_PREFIX == <<"Baggage-">>

\* A key of the carrier the tracer has no use for.
OtherKey == <<"Other">>

DigitChars == <<"0", "1", "2", "3", "4", "5", "6", "7", "8", "9">>
IsDigit(c) == \E i \in DOMAIN DigitChars : DigitChars[i] = c
DigitVal(c) == (CHOOSE i \in DOMAIN DigitChars : DigitChars[i] = c) - 1

\* The characters identifier strings of a carrier are made of.
Chars == {"0", "1", "+", "a"}

\* Every identifier string a carrier can hold, the empty one included.
IdStrings == UNION {[1..n -> Chars] : n \in 0..MaxIdLen}

RECURSIVE DecValue(_)
DecValue(s) ==
    IF s = <<>> THEN 0
    ELSE DecValue(SubSeq(s, 1, Len(s) - 1)) * 10 + DigitVal(s[Len(s)])

\* str::parse::<u64>: an optional "+", then one digit or more (strings of the
\* lengths modelled cannot overflow a u64).
ParseU64(s) ==
    LET body == IF s # <<>> /\ Head(s) = "+" THEN Tail(s) ELSE s IN
    IF body = <<>> \/ \E i \in DOMAIN body : ~IsDigit(body[i])
      THEN [ok |-> FALSE, value |-> 0]
      ELSE [ok |-> TRUE, value |-> DecValue(body)]

\* u64::to_string: decimal, no sign, no leading zero.
RECURSIVE U64_to_string(_)
U64_to_string(n) ==
    IF n < 10 THEN <<DigitChars[n + 1]>>
    ELSE U64_to_string(n \div 10) \o <<DigitChars[(n % 10) + 1]>>

\* MapCarrier::get.
MapCarrier_get(c, key) ==
    IF key \in DOMAIN c THEN [some |-> TRUE, value |-> c[key]]
                        ELSE [some |-> FALSE, value |-> <<>>]

\* MapCarrier::set: insert or overwrite.
MapCarrier_set(c, key, value) ==
    [k \in DOMAIN c \cup {key} |-> IF k = key THEN value ELSE c[k]]

\* str::starts_with(BAGGAGE_KEY_PREFIX).
StartsWithBaggagePrefix(key) == key # <<>> /\ <<Head(key)>> = BAGGAGE_KEY_PREFIX

NoContext == SpanContext_new([backend |-> "None", trace_id |-> 0, span_id |-> 0])

CallResult(kind, msg, context, c) ==
    [kind |-> kind, msg |-> msg, context |-> context, carrier |-> c]

\* FileTracer::extract, the loop over carrier.items(): every item whose key
\* starts with the prefix becomes a baggage item under the key as it is.
RECURSIVE DecodeBaggage(_, _, _)
DecodeBaggage(ctx, c, keys) ==
    IF keys = {} THEN ctx
    ELSE LET k == CHOOSE x \in keys : TRUE
             next == IF StartsWithBaggagePrefix(k)
                       THEN SpanContext_set_baggage_item(ctx, k, c[k])
                       ELSE ctx IN
         DecodeBaggage(next, c, keys \ {k})

\* (mutant of FileTracer_extract) an extract that answers "no context" to a
\* format it does not support.
FileTracer_extract_soft(fmt, c) ==
    IF fmt = "HttpHeaders"
      THEN LET t == MapCarrier_get(c, TRACE_ID_KEY)
               sp == MapCarrier_get(c, SPAN_ID_KEY) IN
           IF ~t.some THEN CallResult("OkNone", "", NoContext, c)
           ELSE IF ~ParseU64(t.value).ok THEN CallResult("Err", "ParseIntError", NoContext, c)
           ELSE IF ~sp.some THEN CallResult("OkNone", "", NoContext, c)
           ELSE IF ~ParseU64(sp.value).ok THEN CallResult("Err", "ParseIntError", NoContext, c)
           ELSE CallResult("OkSome", "",
                    DecodeBaggage(SpanContext_new([backend |-> "File",
                                                   trace_id |-> ParseU64(t.value).value,
                                                   span_id |-> ParseU64(sp.value).value]),
                                  c, DOMAIN c), c)
      ELSE CallResult("OkNone", "", NoContext, c)

\* FileTracer::extract.
FileTracer_extract(fmt, c) ==
    IF fmt = "HttpHeaders"
      THEN LET t == MapCarrier_get(c, TRACE_ID_KEY)
               sp == MapCarrier_get(c, SPAN_ID_KEY) IN
           IF ~t.some THEN CallResult("OkNone", "", NoContext, c)
           ELSE IF ~ParseU64(t.value).ok THEN CallResult("Err", "ParseIntError", NoContext, c)
           ELSE IF ~sp.some THEN CallResult("OkNone", "", NoContext, c)
           ELSE IF ~ParseU64(sp.value).ok THEN CallResult("Err", "ParseIntError", NoContext, c)
           ELSE CallResult("OkSome", "",
                    DecodeBaggage(SpanContext_new([backend |-> "File",
                                                   trace_id |-> ParseU64(t.value).value,
                                                   span_id |-> ParseU64(sp.value).value]),
                                  c, DOMAIN c), c)
      ELSE CallResult("panic", "Unsupported extraction format", NoContext, c)

\* FileTracer::inject, the loop over span_context.baggage_items().
RECURSIVE EncodeBaggage(_, _, _)
EncodeBaggage(c, ctx, keys) ==
    IF keys = {} THEN c
    ELSE LET k == CHOOSE x \in keys : TRUE IN
         EncodeBaggage(MapCarrier_set(c, BAGGAGE_KEY_PREFIX \o k, ctx.baggage[k]),
                       ctx, keys \ {k})

\* (mutant of FileTracer_inject) an inject that writes into a cleared carrier.
FileTracer_inject_clear(ctx, fmt, c) ==
    IF ctx.inner.backend # "File"
      THEN CallResult("panic", "Unsupported span, was it created by FileTracer?", NoContext, c)
    ELSE IF fmt \in {"HttpHeaders", "TextMap"}
      THEN CallResult("Ok", "", NoContext,
                EncodeBaggage(
                    MapCarrier_set(
                        MapCarrier_set(<<>>, TRACE_ID_KEY, U64_to_string(ctx.inner.trace_id)),
                        SPAN_ID_KEY, U64_to_string(ctx.inner.span_id)),
                    ctx, DOMAIN ctx.baggage))
    ELSE CallResult("panic", "Unsupported injection format", NoContext, c)

\* FileTracer::inject.
FileTracer_inject(ctx, fmt, c) ==
    IF ctx.inner.backend # "File"
      THEN CallResult("panic", "Unsupported span, was it created by FileTracer?", NoContext, c)
    ELSE IF fmt \in {"HttpHeaders", "TextMap"}
      THEN CallResult("Ok", "", NoContext,
                EncodeBaggage(
                    MapCarrier_set(
                        MapCarrier_set(c, TRACE_ID_KEY, U64_to_string(ctx.inner.trace_id)),
                        SPAN_ID_KEY, U64_to_string(ctx.inner.span_id)),
                    ctx, DOMAIN ctx.baggage))
    ELSE CallResult("panic", "Unsupported injection format", NoContext, c)

\* ------------------------------------------------- extract and inject calls

Formats == {"Binary", "HttpHeaders", "TextMap"}

\* The map holding the given <<key, value>> entries (keys are distinct).
MakeCarrier(entries) ==
    [k \in {e[1] : e \in entries} |-> (CHOOSE e \in entries : e[1] = k)[2]]

\* A key that is absent, or present with one of the values.
Opt(key, values) == {{}} \cup {{<<key, v>>} : v \in values}

\* Carriers handed to extract: each identifier absent or any string, a baggage
\* item and a foreign key present or not.
ExtractCarriers ==
    {MakeCarrier(T \cup S \cup B \cup O) :
        T \in Opt(TRACE_ID_KEY, IdStrings),
        S \in Opt(SPAN_ID_KEY, IdStrings),
        B \in Opt(BAGGAGE_KEY_PREFIX \o <<"a">>, {<<"x">>}),
        O \in Opt(OtherKey, {<<"x">>})}

\* Carriers handed to inject: empty, or already holding identifiers, a baggage
\* item or a foreign key.
InjectCarriers ==
    {MakeCarrier(T \cup B \cup O) :
        T \in Opt(TRACE_ID_KEY, {<<"1">>}),
        B \in Opt(BAGGAGE_KEY_PREFIX \o <<"a">>, {<<"y">>}),
        O \in Opt(OtherKey, {<<"x">>})}

CarBaggages == UNION {[D -> {<<"x">>, <<"y">>}] : D \in SUBSET {<<"a">>, <<"b">>}}

\* Contexts handed to inject: FileTracer's, or another tracer's.
InjectContexts ==
    {[inner |-> [backend |-> b, trace_id |-> t, span_id |-> i], baggage |-> g] :
        b \in {"File", "Noop"}, t \in {0, 12}, i \in {7, 10}, g \in CarBaggages}

Pending(c) == CallResult("pending", "", NoContext, c)

\* tracer.extract(fmt)
CarExtract ==
    /\ carCall.op = "extract"
    /\ carResult.kind = "pending"
    /\ carResult' = FileTracer_extract(carCall.format, carrier)
    /\ UNCHANGED <<carCall, carrier, gtVars, chanVars, repVars, dataVars, extVars>>

\* tracer.inject(&context, fmt)
CarInject ==
    /\ carCall.op = "inject"
    /\ carResult.kind = "pending"
    /\ LET r == FileTracer_inject(carCall.context, carCall.format, carrier) IN
        /\ carResult' = r
        /\ carrier' = r.carrier
    /\ UNCHANGED <<carCall, gtVars, chanVars, repVars, dataVars, extVars>>

InitCarrier ==
    /\ RestIdle
    /\ GlobalIdle
    /\ ExtIdle
    /\ carCall \in
        {[op |-> "extract", format |-> f, context |-> NoContext, carrier |-> c] :
            f \in Formats, c \in ExtractCarriers}
        \cup
        {[op |-> "inject", format |-> f, context |-> x, carrier |-> c] :
            f \in Formats, x \in InjectContexts, c \in InjectCarriers}
    /\ carrier = carCall.carrier
    /\ carResult = Pending(carCall.carrier)

NextCarrier == CarExtract \/ CarInject

\* One FileTracer::extract or FileTracer::inject call on any carrier.
SpecCarrier == InitCarrier /\ [][NextCarrier]_vars

\* ---------------------------------------------------- claims on carriers

\* The call op with format fmt has ended.
Ended(op, fmt) ==
    /\ carCall.op = op
    /\ carCall.format = fmt
    /\ carResult.kind # "pending"

\* The identifier under key: absent, malformed or valid.
IdPresent(key) == key \in DOMAIN carCall.carrier
IdValid(key) == IdPresent(key) /\ ParseU64(carCall.carrier[key]).ok
IdMalformed(key) == IdPresent(key) /\ ~ParseU64(carCall.carrier[key]).ok

\* C16: extract on HttpHeaders: no TraceID gives Ok(None); a valid
\* TraceID and no SpanID gives Ok(None); a TraceID or a SpanID that is present and
\* not an unsigned integer gives Err(ParseIntError); both valid give
\* Ok(Some(context)) with those ids.
C16_ExtractCases ==
    Ended("extract", "HttpHeaders") =>
        /\ ~IdPresent(TRACE_ID_KEY) => carResult.kind = "OkNone"
        /\ (IdValid(TRACE_ID_KEY) /\ ~IdPresent(SPAN_ID_KEY)) => carResult.kind = "OkNone"
        /\ (IdMalformed(TRACE_ID_KEY) \/ IdMalformed(SPAN_ID_KEY)) =>
                carResult.kind = "Err" /\ carResult.msg = "ParseIntError"
        /\ (IdValid(TRACE_ID_KEY) /\ IdValid(SPAN_ID_KEY)) =>
                /\ carResult.kind = "OkSome"
                /\ carResult.context.inner.trace_id =
                        ParseU64(carCall.carrier[TRACE_ID_KEY]).value
                /\ carResult.context.inner.span_id =
                        ParseU64(carCall.carrier[SPAN_ID_KEY]).value

\* C17: extract returns a parse error whenever the carrier holds a TraceID or a
\* SpanID that is not a valid integer, whether or not the other one is there.
C17_MalformedIsError ==
    (Ended("extract", "HttpHeaders") /\ (IdMalformed(TRACE_ID_KEY) \/ IdMalformed(SPAN_ID_KEY)))
        => carResult.kind = "Err"

\* C18: extract from a TextMap carrier with a valid TraceID and SpanID returns
\* Ok(Some(context)), as it does for HttpHeaders.
C18_TextMapExtract ==
    (Ended("extract", "TextMap") /\ IdValid(TRACE_ID_KEY) /\ IdValid(SPAN_ID_KEY))
        => carResult.kind = "OkSome"

\* The carrier keys an inject of the call's context writes.
InjectedKeys ==
    {TRACE_ID_KEY, SPAN_ID_KEY}
        \cup {BAGGAGE_KEY_PREFIX \o k : k \in DOMAIN carCall.context.baggage}

\* s is the decimal form of n.
IsDecimalOf(s, n) ==
    /\ s # <<>>
    /\ \A i \in DOMAIN s : IsDigit(s[i])
    /\ DecValue(s) = n

\* C19: inject of a FileTracer context into an HttpHeaders or TextMap carrier
\* returns Ok, sets TraceID and SpanID to the decimal ids, sets "Baggage-<key>"
\* to the value of every baggage entry, and leaves every other key as it was.
C19_InjectWrites ==
    \A fmt \in {"HttpHeaders", "TextMap"} :
        (Ended("inject", fmt) /\ carCall.context.inner.backend = "File") =>
            /\ carResult.kind = "Ok"
            /\ DOMAIN carrier = DOMAIN carCall.carrier \cup InjectedKeys
            /\ IsDecimalOf(carrier[TRACE_ID_KEY], carCall.context.inner.trace_id)
            /\ IsDecimalOf(carrier[SPAN_ID_KEY], carCall.context.inner.span_id)
            /\ \A k \in DOMAIN carCall.context.baggage :
                    carrier[BAGGAGE_KEY_PREFIX \o k] = carCall.context.baggage[k]
            /\ \A k \in DOMAIN carCall.carrier \ InjectedKeys :
                    carrier[k] = carCall.carrier[k]

\* C19 witness: a context with two baggage items was injected into a TextMap
\* carrier that held an old TraceID, an old value of one item and a foreign key.
C19_Witness ==
    /\ Ended("inject", "TextMap")
    /\ carResult.kind = "Ok"
    /\ DOMAIN carCall.context.baggage = {<<"a">>, <<"b">>}
    /\ carCall.context.inner.trace_id = 12
    /\ DOMAIN carCall.carrier = {TRACE_ID_KEY, BAGGAGE_KEY_PREFIX \o <<"a">>, OtherKey}
    /\ carrier[BAGGAGE_KEY_PREFIX \o <<"a">>] # carCall.carrier[BAGGAGE_KEY_PREFIX \o <<"a">>]
    /\ carrier[OtherKey] = carCall.carrier[OtherKey]

\* C20: extract and inject with the Binary format panic ("Unsupported extraction
\* format", "Unsupported injection format" for a FileTracer context) and return
\* neither Ok nor Err.
C20_BinaryPanics ==
    /\ Ended("extract", "Binary") =>
        carResult.kind = "panic" /\ carResult.msg = "Unsupported extraction format"
    /\ Ended("inject", "Binary") =>
        /\ carResult.kind = "panic"
        /\ carrier = carCall.carrier
        /\ carCall.context.inner.backend = "File" =>
                carResult.msg = "Unsupported injection format"

\* C20 witness: an extract with the Binary format panicked although the call was
\* given valid identifiers.
C20_Witness ==
    /\ Ended("extract", "Binary")
    /\ carResult.kind = "panic"
    /\ IdValid(TRACE_ID_KEY)
    /\ IdValid(SPAN_ID_KEY)

\* ================================================= one span, start to file

\* Option<T>: None is <<>>, Some(x) is <<x>>.
None == <<>>
Some(x) == <<x>>

\* Option::unwrap_or_else(SystemTime::now).
Unwrap_or_else_now(opt, now) == IF opt = None THEN now ELSE opt[1]

\* The SystemTime values of a run.
Times == 0..MaxClock

\* The times a caller passes in: the earliest and the latest.
GivenTimes == {0, MaxClock}

\* Ord for the String keys of the model.
KeyOrder == <<"a", "b">>
KeyRank(k) == CHOOSE i \in DOMAIN KeyOrder : KeyOrder[i] = k
KeyLess(k1, k2) == KeyRank(k1) < KeyRank(k2)

\* The orders in which a HashMap can hand out the keys: the hasher is seeded at
\* random, any order is possible.
IterOrders == {q \in [1..Cardinality(Keys) -> Keys] : \A i, j \in DOMAIN q : i # j => q[i] # q[j]}

\* HashMap::iter().collect() under one of those orders: the keys of the map.
RECURSIVE IterKeys(_, _)
IterKeys(m, order) ==
    IF order = <<>> THEN <<>>
    ELSE IF Head(order) \in DOMAIN m
           THEN <<Head(order)>> \o IterKeys(m, Tail(order))
           ELSE IterKeys(m, Tail(order))

\* Insert k in its place in a sorted sequence of keys.
RECURSIVE InsertSorted(_, _)
InsertSorted(k, sorted) ==
    IF sorted = <<>> THEN <<k>>
    ELSE IF KeyLess(k, Head(sorted)) THEN <<k>> \o sorted
    ELSE <<Head(sorted)>> \o InsertSorted(k, Tail(sorted))

\* (mutant of Sort_by_key) items left in the order the map handed them out.
Sort_by_key_unsorted(keys) == keys

\* Vec::sort_by_key(|&(k, _)| k).
RECURSIVE Sort_by_key(_)
Sort_by_key(keys) ==
    IF keys = <<>> THEN <<>>
    ELSE InsertSorted(Head(keys), Sort_by_key(Tail(keys)))

\* TagValue: the Boolean (true is 1) and Integer variants.
TagValues == {[type |-> "Boolean", v |-> 1], [type |-> "Integer", v |-> 7]}

\* The tags a caller sets: key and value.
TagCalls ==
    {<<"a", [type |-> "Boolean", v |-> 1]>>, <<"a", [type |-> "Integer", v |-> 7]>>,
     <<"b", [type |-> "Integer", v |-> 7]>>}

\* v.to_string() for Boolean and Integer, v.clone() for String.
Value_to_string(value) ==
    CASE value.type = "Boolean" -> IF value.v = 1 THEN <<"true">> ELSE <<"false">>
      [] value.type = "Integer" -> U64_to_string(value.v)
      [] OTHER -> value.v

\* SpanTags::new().
EmptyTags == [k \in {} |-> [type |-> "Boolean", v |-> 1]]

\* Log::new().log(..).log(..) with or without .at(timestamp).
LogField == [type |-> "String", v |-> <<"x">>]
Logs ==
    {[fields |-> [k \in {"a", "b"} |-> LogField], timestamp |-> None]}
    \cup {[fields |-> [k \in {"b"} |-> LogField], timestamp |-> Some(t)] : t \in GivenTimes}

\* (mutant of Log_at_or_now) a log always stamped with the current time.
Log_at_or_now_always(log, now) == [log EXCEPT !.timestamp = Some(now)]

\* Log::at_or_now.
Log_at_or_now(log, now) ==
    IF log.timestamp = None THEN [log EXCEPT !.timestamp = Some(now)] ELSE log

\* StartOptions::default().
StartOptions_default == [references |-> <<>>, start_time |-> None]

\* StartOptions::reference_span.
StartOptions_reference_span(opts, ref) == [opts EXCEPT !.references = Append(@, ref)]

\* StartOptions::start_time.
StartOptions_start_time(opts, t) == [opts EXCEPT !.start_time = Some(t)]

\* (mutant of Span_create) a Span::new that applies the references last first.
RECURSIVE Reverse(_)
Reverse(q) == IF q = <<>> THEN <<>> ELSE Append(Reverse(Tail(q)), Head(q))

Span_create_reversed(name, context, opts, now) ==
    ApplyReferences(
        [state |-> "building", auto |-> FALSE, context |-> context, finish_time |-> None,
         logs |-> <<>>, name |-> name, references |-> <<>>,
         start_time |-> Unwrap_or_else_now(opts.start_time, now), tags |-> EmptyTags],
        Reverse(opts.references))

\* Span::new with every field of the Span.
Span_create(name, context, opts, now) ==
    ApplyReferences(
        [state |-> "building", auto |-> FALSE, context |-> context, finish_time |-> None,
         logs |-> <<>>, name |-> name, references |-> <<>>,
         start_time |-> Unwrap_or_else_now(opts.start_time, now), tags |-> EmptyTags],
        opts.references)

\* Span::finish_time.
Span_finish_time(sp, t) == [sp EXCEPT !.finish_time = Some(t)]

\* Span::log.
Span_log(sp, log, now) == [sp EXCEPT !.logs = Append(@, Log_at_or_now(log, now))]

\* Span::tag.
Span_tag(sp, k, v) == [sp EXCEPT !.tags = Insert(@, k, v)]

\* Span::set_operation_name.
Span_set_operation_name(sp, name) == [sp EXCEPT !.name = name]

\* (mutant of Span_finish) a FinishedSpan that always takes the clock as its end.
Span_finish_now(sp, now) ==
    [context |-> sp.context, finish_time |-> now, logs |-> sp.logs, name |-> sp.name,
     references |-> sp.references, start_time |-> sp.start_time, tags |-> sp.tags]

\* (mutant of Span_finish) a FinishedSpan built without the logs.
Span_finish_no_logs(sp, now) ==
    [context |-> sp.context, finish_time |-> Unwrap_or_else_now(sp.finish_time, now),
     logs |-> <<>>, name |-> sp.name,
     references |-> sp.references, start_time |-> sp.start_time, tags |-> sp.tags]

\* Span::finish: the FinishedSpan built from the Span.
Span_finish(sp, now) ==
    [context |-> sp.context, finish_time |-> Unwrap_or_else_now(sp.finish_time, now),
     logs |-> sp.logs, name |-> sp.name,
     references |-> sp.references, start_time |-> sp.start_time, tags |-> sp.tags]

\* One line of the file: the block it belongs to, and its two fields.
Line(block, key, value) == [block |-> block, key |-> key, value |-> value]

\* write_trace, the References block: one line per reference, in Vec order. A
\* parent that is not a FileTracerContext makes the expect panic.
RECURSIVE ReferenceLines(_)
ReferenceLines(refs) ==
    IF refs = <<>> THEN <<>>
    ELSE <<Line("reference", Head(refs).kind, Head(refs).context.inner.span_id)>>
            \o ReferenceLines(Tail(refs))

\* write_trace, the Baggage items block: one line per item, as the map hands
\* them out.
RECURSIVE BaggageLines(_, _)
BaggageLines(baggage, keys) ==
    IF keys = <<>> THEN <<>>
    ELSE <<Line("baggage", Head(keys), baggage[Head(keys)])>>
            \o BaggageLines(baggage, Tail(keys))

\* write_trace, the Tags block (or the fields of one log): one line per key of
\* the list given.
RECURSIVE ValueLines(_, _, _)
ValueLines(block, map, keys) ==
    IF keys = <<>> THEN <<>>
    ELSE <<Line(block, Head(keys), Value_to_string(map[Head(keys)]))>>
            \o ValueLines(block, map, Tail(keys))

\* write_trace, the Logs block: per log, in Vec order, its timestamp and then its
\* fields sorted by key.
RECURSIVE LogLines(_, _)
LogLines(logs, fieldOrder) ==
    IF logs = <<>> THEN <<>>
    ELSE <<Line("log", "timestamp", Head(logs).timestamp[1])>>
            \o ValueLines("field", Head(logs).fields,
                          Sort_by_key(IterKeys(Head(logs).fields, fieldOrder)))
            \o LogLines(Tail(logs), fieldOrder)

\* FileTracer::write_trace. The three orders are those in which the baggage map,
\* the tag map and the field maps hand out their keys.
FileTracer_write_trace(fs, baggageIter, tagIter, fieldIter) ==
    IF \/ fs.context.inner.backend # "File"
       \/ fs.finish_time < fs.start_time
       \/ \E i \in DOMAIN fs.references : fs.references[i].context.inner.backend # "File"
       \/ \E i \in DOMAIN fs.logs : fs.logs[i].timestamp = None
      THEN [kind |-> "panic", lines |-> <<>>]
      ELSE [kind |-> "ok",
            lines |->
                <<Line("header", "Trace ID", fs.context.inner.trace_id),
                  Line("header", "Span ID", fs.context.inner.span_id),
                  Line("header", "Span Duration", fs.finish_time - fs.start_time)>>
                \o ReferenceLines(fs.references)
                \o BaggageLines(fs.context.baggage, IterKeys(fs.context.baggage, baggageIter))
                \o ValueLines("tag", fs.tags, Sort_by_key(IterKeys(fs.tags, tagIter)))
                \o LogLines(fs.logs, fieldIter)]

\* ------------------------------------------------- the calls on one span

\* Contexts of other FileTracer spans, each with one baggage item.
LifeParents ==
    {[inner |-> [backend |-> "File", trace_id |-> 11, span_id |-> 21],
      baggage |-> Insert(EmptyBaggage, "a", "y")],
     [inner |-> [backend |-> "File", trace_id |-> 12, span_id |-> 22],
      baggage |-> Insert(EmptyBaggage, "b", "y")]}

\* The keys of q followed by those of keys it does not hold yet.
RECURSIVE AppendNew(_, _)
AppendNew(q, keys) ==
    IF keys = <<>> THEN q
    ELSE AppendNew(IF \E i \in DOMAIN q : q[i] = Head(keys) THEN q ELSE Append(q, Head(keys)),
                   Tail(keys))

\* The baggage keys in first-insertion order after the references are applied:
\* each parent here has a single item.
RECURSIVE OrderAfter(_, _)
OrderAfter(q, refs) ==
    IF refs = <<>> THEN q
    ELSE OrderAfter(AppendNew(q, IterKeys(Head(refs).context.baggage, KeyOrder)), Tail(refs))

Building == span.state = "building"
CanCall == lifeOps < MaxOps

LifeRest == <<chanVars, repVars, dataVars, gtVars, carVars, stopLogVars, heapVars, failVars>>

\* SystemTime::now() moves on.
LifeTick ==
    /\ clock < MaxClock
    /\ clock' = clock + 1
    /\ UNCHANGED <<options, span, channel, output, baggageOrder, lifeOps, LifeRest>>

\* StartOptions::child_of.
OptChildOf(parent) ==
    /\ span.state = "none"
    /\ CanCall
    /\ options' = StartOptions_reference_span(
                      options,
                      [kind |-> "ChildOf", context |-> parent])
    /\ lifeOps' = lifeOps + 1
    /\ UNCHANGED <<clock, span, channel, output, baggageOrder, LifeRest>>

\* StartOptions::follows.
OptFollows(parent) ==
    /\ span.state = "none"
    /\ CanCall
    /\ options' = StartOptions_reference_span(
                      options,
                      [kind |-> "FollowsFrom", context |-> parent])
    /\ lifeOps' = lifeOps + 1
    /\ UNCHANGED <<clock, span, channel, output, baggageOrder, LifeRest>>

\* StartOptions::start_time.
OptStartTime(t) ==
    /\ span.state = "none"
    /\ options' = StartOptions_start_time(options, t)
    /\ options' # options
    /\ UNCHANGED <<clock, span, channel, output, baggageOrder, lifeOps, LifeRest>>

\* FileTracer::span (Tracer::span_with_options): fresh ids, then Span::new. The
\* StartOptions are moved into the call; the model keeps what they held.
LifeSpan ==
    /\ span.state = "none"
    /\ LET opts == options
           context == SpanContext_new([backend |-> "File", trace_id |-> 1, span_id |-> 1]) IN
        /\ span' = Span_create("test1", context, opts, clock)
        /\ baggageOrder' = OrderAfter(<<>>, opts.references)
    /\ UNCHANGED <<clock, options, channel, output, lifeOps, LifeRest>>

\* Span::finish_time.
LifeFinishTime(t) ==
    /\ Building /\ ~span.auto /\ CanCall
    /\ span' = Span_finish_time(span, t)
    /\ lifeOps' = lifeOps + 1
    /\ UNCHANGED <<clock, options, channel, output, baggageOrder, LifeRest>>

\* Span::tag.
LifeTag(k, v) ==
    /\ Building /\ ~span.auto /\ CanCall
    /\ span' = Span_tag(span, k, v)
    /\ lifeOps' = lifeOps + 1
    /\ UNCHANGED <<clock, options, channel, output, baggageOrder, LifeRest>>

\* Span::log, also reached through AutoFinishingSpan::log.
LifeLog(log) ==
    /\ Building /\ CanCall
    /\ span' = Span_log(span, log, clock)
    /\ lifeOps' = lifeOps + 1
    /\ UNCHANGED <<clock, options, channel, output, baggageOrder, LifeRest>>

\* Span::set_baggage_item.
LifeSetBaggageItem(k, v) ==
    /\ Building /\ ~span.auto /\ CanCall
    /\ span' = Span_set_baggage_item(span, k, v)
    /\ baggageOrder' = AppendNew(baggageOrder, <<k>>)
    /\ lifeOps' = lifeOps + 1
    /\ UNCHANGED <<clock, options, channel, output, LifeRest>>

\* Span::set_operation_name.
LifeSetOperationName ==
    /\ Building /\ ~span.auto /\ CanCall
    /\ span.name # "test2"
    /\ span' = Span_set_operation_name(span, "test2")
    /\ lifeOps' = lifeOps + 1
    /\ UNCHANGED <<clock, options, channel, output, baggageOrder, LifeRest>>

\* Span::child_of.
LifeChildOf(parent) ==
    /\ Building /\ ~span.auto /\ CanCall
    /\ span' = Span_reference_span(span, [kind |-> "ChildOf", context |-> parent])
    /\ baggageOrder' = OrderAfter(baggageOrder, <<[kind |-> "ChildOf", context |-> parent]>>)
    /\ lifeOps' = lifeOps + 1
    /\ UNCHANGED <<clock, options, channel, output, LifeRest>>

\* Span::follows.
LifeFollows(parent) ==
    /\ Building /\ ~span.auto /\ CanCall
    /\ span' = Span_reference_span(span, [kind |-> "FollowsFrom", context |-> parent])
    /\ baggageOrder' = OrderAfter(baggageOrder, <<[kind |-> "FollowsFrom", context |-> parent]>>)
    /\ lifeOps' = lifeOps + 1
    /\ UNCHANGED <<clock, options, channel, output, LifeRest>>

\* Span::auto_finish: from here on only context() and log() can be called.
LifeAutoFinish ==
    /\ Building /\ ~span.auto
    /\ span' = [span EXCEPT !.auto = TRUE]
    /\ UNCHANGED <<clock, options, channel, output, baggageOrder, lifeOps, LifeRest>>

\* Span::finish, called by the owner or by the drop of the AutoFinishingSpan. The
\* receiver of this specification is alive, the send succeeds.
LifeFinish ==
    /\ Building
    /\ channel' = Append(channel, Span_finish(span, clock))
    /\ span' = [span EXCEPT !.state = "finished"]
    /\ UNCHANGED <<clock, options, output, baggageOrder, lifeOps, LifeRest>>

\* receiver.recv() and FileTracer::write_trace on what it returned.
LifeWriteTrace ==
    /\ channel # <<>>
    /\ \E baggageIter \in IterOrders, tagIter \in IterOrders, fieldIter \in IterOrders :
        output' = FileTracer_write_trace(Head(channel), baggageIter, tagIter, fieldIter)
    /\ channel' = Tail(channel)
    /\ UNCHANGED <<clock, options, span, baggageOrder, lifeOps, LifeRest>>

InitLife ==
    /\ ReporterIdle
    /\ DataIdle
    /\ GlobalIdle
    /\ CarrierIdle
    /\ ExtIdle

NextLife ==
    \/ LifeTick
    \/ \E c \in LifeParents : OptChildOf(c)
    \/ \E c \in LifeParents : OptFollows(c)
    \/ \E t \in GivenTimes : OptStartTime(t)
    \/ LifeSpan
    \/ \E t \in GivenTimes : LifeFinishTime(t)
    \/ \E c \in TagCalls : LifeTag(c[1], c[2])
    \/ \E log \in Logs : LifeLog(log)
    \/ \E k \in Keys : LifeSetBaggageItem(k, "x")
    \/ LifeSetOperationName
    \/ \E c \in LifeParents : LifeChildOf(c)
    \/ \E c \in LifeParents : LifeFollows(c)
    \/ LifeAutoFinish
    \/ LifeFinish
    \/ LifeWriteTrace

\* One span: its StartOptions, the calls on it, finish and write_trace.
SpecLife == InitLife /\ [][NextLife]_vars

\* ------------------------------------------------- claims on one span

Last(q) == q[Len(q)]

\* The step is Span::new.
IsCreate == span.state = "none" /\ span'.state = "building"

\* The step is Span::finish: a FinishedSpan goes into the channel.
IsFinish == Len(channel') = Len(channel) + 1

\* C21: start_time is the one of the StartOptions when given, else the clock at
\* construction; the FinishedSpan's finish_time is the value set with
\* Span::finish_time when one was set, else the clock at finish; setting
\* finish_time leaves the span unfinished and every other field as it was.
C21_SpanTiming ==
    [][/\ IsCreate =>
            span'.start_time = IF options.start_time = None THEN clock
                               ELSE options.start_time[1]
       /\ IsFinish =>
            Last(channel').finish_time = IF span.finish_time = None THEN clock
                                         ELSE span.finish_time[1]
       /\ \A t \in GivenTimes : LifeFinishTime(t) =>
            /\ span' = [span EXCEPT !.finish_time = Some(t)]
            /\ span'.state = "building"
            /\ channel' = channel
       /\ (Building /\ span.finish_time # None /\ ~IsFinish) =>
            /\ span'.state = "building"
            /\ span'.finish_time # None
      ]_vars

\* A span started at a given time, its finish time set to 0, tagged, and then
\* finished when the clock read 1: the FinishedSpan ends at 0.
C21_Witness ==
    /\ channel # <<>>
    /\ clock >= 1
    /\ options.start_time = Some(0)
    /\ Head(channel).start_time = 0
    /\ Head(channel).finish_time = 0
    /\ DOMAIN Head(channel).tags # {}

\* C22: the FinishedSpan sent equals the Span at the moment of finish in name,
\* tags, logs, references, start_time and context, and stays so in the channel.
C22_Snapshot ==
    [][/\ IsFinish =>
            LET fs == Last(channel') IN
            /\ fs.name = span.name
            /\ fs.tags = span.tags
            /\ fs.logs = span.logs
            /\ fs.references = span.references
            /\ fs.start_time = span.start_time
            /\ fs.context = span.context
            /\ SubSeq(channel', 1, Len(channel)) = channel
       /\ (channel # <<>> /\ channel' # <<>>) => Head(channel') = Head(channel)
      ]_vars

\* A FinishedSpan in the channel of a renamed span with a log.
C22_Witness ==
    /\ channel # <<>>
    /\ Head(channel).name = "test2"
    /\ Head(channel).logs # <<>>

\* C23: Span::new leaves the references of the StartOptions on the span in the
\* order they were declared, child_of appends a ChildOf and follows a FollowsFrom
\* reference, and nothing else changes the list.
C23_ReferenceOrder ==
    [][/\ IsCreate => span'.references = options.references
       /\ \A c \in LifeParents :
            /\ OptChildOf(c) =>
                  options'.references =
                      Append(options.references, [kind |-> "ChildOf", context |-> c])
            /\ OptFollows(c) =>
                  options'.references =
                      Append(options.references, [kind |-> "FollowsFrom", context |-> c])
            /\ LifeChildOf(c) =>
                  span'.references =
                      Append(span.references, [kind |-> "ChildOf", context |-> c])
            /\ LifeFollows(c) =>
                  span'.references =
                      Append(span.references, [kind |-> "FollowsFrom", context |-> c])
       /\ (Building /\ Len(span'.references) = Len(span.references)) =>
            span'.references = span.references
       /\ IsFinish => Last(channel').references = span.references
      ]_vars

\* Two references of different kinds declared on the StartOptions, both on the
\* span in that order.
C23_Witness ==
    /\ Building
    /\ Len(options.references) = 2
    /\ options.references[1].kind = "FollowsFrom"
    /\ options.references[2].kind = "ChildOf"
    /\ options.references[1].context # options.references[2].context
    /\ span.references = options.references

\* The lines of one block of the output, in order.
BlockLines(block) == SelectSeq(output.lines, LAMBDA l : l.block = block)

Written == output # <<>> /\ output.kind = "ok"

\* C24: write_trace lists the baggage items in the order they were inserted and
\* the references in the order they were added.
C24_InsertionOrder ==
    Written =>
        /\ [i \in DOMAIN BlockLines("baggage") |-> BlockLines("baggage")[i].key] = baggageOrder
        /\ [i \in DOMAIN BlockLines("reference") |-> BlockLines("reference")[i].key]
              = [i \in DOMAIN span.references |-> span.references[i].kind]
        /\ [i \in DOMAIN BlockLines("reference") |-> BlockLines("reference")[i].value]
              = [i \in DOMAIN span.references |-> span.references[i].context.inner.span_id]

\* The keys of a run of lines are in strictly ascending order.
Ascending(lines) ==
    \A i, j \in DOMAIN lines : i < j => KeyLess(lines[i].key, lines[j].key)

\* The field lines that follow the n-th log line of the output.
FieldsOfLog(n) ==
    LET at == {i \in DOMAIN output.lines :
                  /\ output.lines[i].block = "log"
                  /\ Cardinality({j \in 1..i : output.lines[j].block = "log"}) = n}
        from == CHOOSE i \in at : TRUE
        upto == IF \E j \in DOMAIN output.lines : j > from /\ output.lines[j].block = "log"
                  THEN (CHOOSE j \in DOMAIN output.lines :
                            /\ j > from /\ output.lines[j].block = "log"
                            /\ \A x \in (from + 1)..(j - 1) : output.lines[x].block # "log") - 1
                  ELSE Len(output.lines)
    IN SubSeq(output.lines, from + 1, upto)

\* C25: the Tags block lists every tag once with keys ascending; the logs appear
\* in the order they were logged, each with all its fields, keys ascending.
C25_SortedKeys ==
    Written =>
        /\ Ascending(BlockLines("tag"))
        /\ {BlockLines("tag")[i].key : i \in DOMAIN BlockLines("tag")} = DOMAIN span.tags
        /\ [i \in DOMAIN BlockLines("log") |-> BlockLines("log")[i].value]
              = [i \in DOMAIN span.logs |-> span.logs[i].timestamp[1]]
        /\ \A n \in DOMAIN span.logs :
              /\ Ascending(FieldsOfLog(n))
              /\ {FieldsOfLog(n)[i].key : i \in DOMAIN FieldsOfLog(n)}
                    = DOMAIN span.logs[n].fields

\* A file written for a span with a two-field log followed by a one-field log.
C25_Witness ==
    /\ Written
    /\ Len(span.logs) = 2
    /\ DOMAIN span.logs[1].fields = {"a", "b"}
    /\ DOMAIN span.logs[2].fields = {"b"}
    /\ span.logs[1].timestamp[1] > span.logs[2].timestamp[1]

\* C26: every log of the span and of the FinishedSpan has a timestamp: the one
\* given with Log::at, else the clock when Span::log was called.
C26_LogsStamped ==
    [][/\ \A log \in Logs : LifeLog(log) =>
            /\ Len(span'.logs) = Len(span.logs) + 1
            /\ Last(span'.logs).timestamp =
                  IF log.timestamp = None THEN Some(clock) ELSE log.timestamp
            /\ Last(span'.logs).fields = log.fields
       /\ IsFinish =>
            \A i \in DOMAIN Last(channel').logs : Last(channel').logs[i].timestamp # None
      ]_vars

\* A span wrapped by auto_finish, logged to once without and once with a time,
\* dropped: both logs of the FinishedSpan carry their time.
C26_Witness ==
    /\ channel # <<>>
    /\ span.auto
    /\ Len(Head(channel).logs) = 2
    /\ Head(channel).logs[1].timestamp = Some(1)
    /\ Head(channel).logs[2].timestamp = Some(0)
    /\ Head(channel).logs[2].fields # Head(channel).logs[1].fields

\* C27: in every FinishedSpan each log's timestamp lies between start_time and
\* finish_time.
C27_LogWithinSpan ==
    \A n \in DOMAIN channel : \A i \in DOMAIN channel[n].logs :
        /\ channel[n].start_time <= channel[n].logs[i].timestamp[1]
        /\ channel[n].logs[i].timestamp[1] <= channel[n].finish_time

\* ================================================= repeated stop calls

\* The ways ReporterThread::stop is entered: a call, or the Drop of the value.
StopEntries == {"stop", "drop"}

\* (mutant of StopEnter) a stop that looks at the handle without taking it.
StopEnterKeepHandle(how) ==
    /\ ~reporterDropped
    /\ stopPc \in {"idle", "returned", "panicked"}
    /\ stopCalls < MaxStopCalls
    /\ stopCalls' = stopCalls + 1
    /\ reporterDropped' = (how = "drop")
    /\ IF threadHandle
         THEN /\ stopPc' = "sleeping"
              /\ sentAtStop' = Len(sent)
              /\ UNCHANGED threadHandle
         ELSE UNCHANGED <<threadHandle, stopPc, sentAtStop>>
    /\ UNCHANGED <<chanVars, stopping, workerPc, delivered, sleepLeft, dataVars,
                   gtVars, carVars, lifeVars, heapVars, failVars>>

\* ReporterThread::stop entered, by a call or by Drop: `if let Some(thread) =
\* self.thread_handle.take()`. Stop takes &mut self and blocks, so it is entered
\* only while no other stop is running; Drop is the last use of the value.
StopEnter(how) ==
    /\ ~reporterDropped
    /\ stopPc \in {"idle", "returned", "panicked"}
    /\ stopCalls < MaxStopCalls
    /\ stopCalls' = stopCalls + 1
    /\ reporterDropped' = (how = "drop")
    /\ IF threadHandle
         THEN /\ threadHandle' = FALSE
              /\ stopPc' = "sleeping"
              /\ sentAtStop' = Len(sent)
         ELSE UNCHANGED <<threadHandle, stopPc, sentAtStop>>
    /\ UNCHANGED <<chanVars, stopping, workerPc, delivered, sleepLeft, dataVars,
                   gtVars, carVars, lifeVars, heapVars, failVars>>

NextStop ==
    \/ TracerSpan
    \/ \E h \in Handles : Finish(h)
    \/ DropTracer
    \/ WorkerCheck
    \/ WorkerRecv
    \/ WorkerSinkReturn
    \/ WorkerTimeout
    \/ WorkerDisconnected
    \/ \E how \in StopEntries : StopEnter(how)
    \/ StopSleep
    \/ StopSetFlag
    \/ StopJoin

\* The reporter with stop called more than once and with its Drop.
SpecStop == Init /\ [][NextStop]_vars

\* ------------------------------------------------- claims on stop and the worker

IsStopEntry == stopCalls' = stopCalls + 1

\* C28: the first stop (a call or the drop) takes the handle, sleeps the whole
\* stop_delay, sets the flag and joins; every later stop, and the drop after a
\* stop, changes nothing: no sleep, no join, no panic.
C28_StopIdempotent ==
    [][/\ (IsStopEntry /\ stopCalls = 0) =>
            /\ threadHandle /\ ~threadHandle'
            /\ stopPc' = "sleeping"
            /\ stopping' = stopping
       /\ (IsStopEntry /\ stopCalls > 0) =>
            /\ repVars' = repVars
            /\ chanVars' = chanVars
       /\ stopPc \in {"sleeping", "joining"} => stopCalls = 1
       /\ stopping' # stopping =>
            /\ stopping'
            /\ stopPc = "sleeping" /\ sleepLeft = 0
            /\ stopPc' = "joining"
       /\ (stopPc = "joining" /\ stopPc' # "joining") =>
            /\ workerPc \in {"done", "panicked"}
            /\ stopPc' = IF workerPc = "done" THEN "returned" ELSE "panicked"
      ]_vars

\* A stop that returned, then the drop of the reporter.
C28_Witness ==
    /\ stopCalls = 2
    /\ reporterDropped
    /\ stopPc = "returned"
    /\ stopping
    /\ delivered # <<>>

\* C29: in the worker a receive timeout leads back to the test of the stop flag,
\* a received span to the sink, and a disconnected channel (no span queued, every
\* sender dropped) to a panic that ends the thread; nothing else ends it so.
C29_RecvOutcomes ==
    [][/\ (workerPc = "recv" /\ workerPc' # "recv") =>
            /\ (queue # <<>>) =>
                  /\ workerPc' = "sink"
                  /\ delivered' = Append(delivered, Head(queue))
            /\ (queue = <<>> /\ SendersAlive) =>
                  /\ workerPc' = "check"
                  /\ delivered' = delivered
            /\ (queue = <<>> /\ ~SendersAlive) => workerPc' = "panicked"
       /\ (workerPc # "panicked" /\ workerPc' = "panicked") =>
            /\ workerPc = "recv"
            /\ queue = <<>>
            /\ ~SendersAlive
       /\ workerPc = "panicked" =>
            /\ workerPc' = "panicked"
            /\ delivered' = delivered
      ]_vars

\* The worker delivered a span, timed out while the tracer was alive, and
\* panicked once the tracer was dropped.
C29_Witness ==
    /\ workerPc = "panicked"
    /\ ~tracerAlive
    /\ delivered # <<>>
    /\ ~stopping

\* ================================================= SpanContext::clone

\* A SpanContext value: the addresses of its Box<dyn ImplContext> and of the
\* table of its HashMap.
ContextAt(inner, baggage) == [inner |-> inner, baggage |-> baggage]

\* What a SpanContext holds, read through its two addresses.
Deref(h, ctx) == [inner |-> h[ctx.inner], baggage |-> h[ctx.baggage]]

\* Write a SpanContext's fields back through its two addresses.
Store(h, ctx, value) ==
    [a \in DOMAIN h |-> IF a = ctx.baggage THEN value.baggage
                        ELSE IF a = ctx.inner THEN value.inner
                        ELSE h[a]]

\* The context handed to reference_span as the parent.
HeapParent ==
    [kind |-> "ChildOf",
     context |-> [inner |-> [backend |-> "File", trace_id |-> 11, span_id |-> 21],
                  baggage |-> EmptyBaggage]]

HeapRest == <<chanVars, repVars, dataVars, gtVars, carVars, lifeVars, stopLogVars, failVars>>

\* SpanContext::new(ImplContextBox::new(FileTracerContext {..})): Box::new and
\* HashMap::new.
HeapNew ==
    /\ contexts = <<>>
    /\ heap' = heap \o <<[backend |-> "File", trace_id |-> 1, span_id |-> 1], EmptyBaggage>>
    /\ contexts' = <<ContextAt(Len(heap) + 1, Len(heap) + 2)>>
    /\ UNCHANGED HeapRest

\* (mutant of SpanContext_clone) a clone that copies the two pointers.
SpanContext_clone_shallow(h, ctx) == [heap |-> h, context |-> ctx]

\* Clone for SpanContext: `inner: self.inner.clone()` is ImplContextBox::clone,
\* a new Box around a clone of the backend context; `baggage:
\* self.baggage.clone()` is a new HashMap with cloned Strings.
SpanContext_clone(h, ctx) ==
    [heap |-> h \o <<h[ctx.inner], h[ctx.baggage]>>,
     context |-> ContextAt(Len(h) + 1, Len(h) + 2)]

\* context.clone()
HeapClone(c) ==
    /\ Len(contexts) <= MaxClones
    /\ LET r == SpanContext_clone(heap, contexts[c]) IN
        /\ heap' = r.heap
        /\ contexts' = Append(contexts, r.context)
    /\ UNCHANGED HeapRest

\* SpanContext::set_baggage_item on one of the values.
HeapSetBaggageItem(c, k, v) ==
    /\ heap' = Store(heap, contexts[c],
                     SpanContext_set_baggage_item(Deref(heap, contexts[c]), k, v))
    /\ heap' # heap
    /\ UNCHANGED <<contexts, HeapRest>>

\* SpanContext::reference_span on one of the values.
HeapReferenceSpan(c) ==
    /\ heap' = Store(heap, contexts[c],
                     SpanContext_reference_span(Deref(heap, contexts[c]), HeapParent).context)
    /\ heap' # heap
    /\ UNCHANGED <<contexts, HeapRest>>

InitClone == ReporterIdle /\ DataIdle /\ GlobalIdle /\ CarrierIdle /\ ExtIdle

NextClone ==
    \/ HeapNew
    \/ \E c \in DOMAIN contexts : HeapClone(c)
    \/ \E c \in DOMAIN contexts, k \in Keys : HeapSetBaggageItem(c, k, "x")
    \/ \E c \in DOMAIN contexts : HeapReferenceSpan(c)

\* One SpanContext, its clones, and writes to any of them.
SpecClone == InitClone /\ [][NextClone]_vars

\* ------------------------------------------------- claims on SpanContext::clone

\* C30: a clone holds what its original held when it was made, and
\* set_baggage_item or reference_span on one SpanContext value changes the
\* baggage and the backend ids of no other, original or clone.
C30_CloneIsDeep ==
    [][/\ \A c \in DOMAIN contexts :
            /\ HeapClone(c) =>
                  /\ Deref(heap', Last(contexts')) = Deref(heap, contexts[c])
                  /\ \A d \in DOMAIN contexts :
                        Deref(heap', contexts'[d]) = Deref(heap, contexts[d])
            /\ ((\E k \in Keys : HeapSetBaggageItem(c, k, "x")) \/ HeapReferenceSpan(c)) =>
                  \A d \in DOMAIN contexts \ {c} :
                        Deref(heap', contexts'[d]) = Deref(heap, contexts[d])
       /\ \A c, d \in DOMAIN contexts' :
            c # d => /\ contexts'[c].inner # contexts'[d].inner
                     /\ contexts'[c].baggage # contexts'[d].baggage
      ]_vars

\* The original written to after the clone was made and the clone written to as
\* well: the two differ in baggage and in trace id.
C30_Witness ==
    /\ Len(contexts) >= 2
    /\ DOMAIN Deref(heap, contexts[1]).baggage = {"a"}
    /\ DOMAIN Deref(heap, contexts[2]).baggage = {"b"}
    /\ Deref(heap, contexts[1]).inner.trace_id = 1
    /\ Deref(heap, contexts[2]).inner.trace_id = 11


\* ------------------------------------------------------------ FailSpan

\* The values a Result holds, each with what Display and Debug print for it.
OkValues == {[display |-> "10", debug |-> "10"]}
Errors ==
    {[display |-> "SomeError", debug |-> "SomeError"],
     [display |-> "invalid digit found in string", debug |-> "ParseIntError"]}

\* Result<T, E>.
Results ==
    {[kind |-> "Ok", value |-> v] : v \in OkValues}
    \cup {[kind |-> "Err", value |-> e] : e \in Errors}

\* format!("{}", error) and error.to_string(): both go through Display.
Display(e) == <<e.display>>

\* format!("{:?}", error).
Debug(e) == <<e.debug>>

\* FailSpan::error for Result: self.as_ref().err().
Result_error(self) == IF self.kind = "Err" THEN Some(self.value) ELSE None

\* Log::new(): no field, no timestamp.
Log_new == [fields |-> [k \in {} |-> LogField], timestamp |-> None]

\* Log::log: insert the field, or replace it.
Log_log(log, key, value) == [log EXCEPT !.fields = Insert(@, key, value)]

\* LogValue::String.
LogString(s) == [type |-> "String", v |-> s]

\* (mutant of Result_fail_span) a fail_span that marks the span whatever the
\* Result is.
Result_fail_span_always(self, sp, now) ==
    [result |-> self,
     span |-> Span_log(Span_tag(sp, "error", [type |-> "Boolean", v |-> 1]),
                       Log_log(Log_new, "event", LogString(<<"error">>)), now)]

\* FailSpan::fail_span for Result: the Result handed back, and the span after
\* the call.
Result_fail_span(self, sp, now) ==
    IF Result_error(self) = None
      THEN [result |-> self, span |-> sp]
      ELSE LET error == Result_error(self)[1] IN
           [result |-> self,
            span |->
                Span_log(
                    Span_tag(sp, "error", [type |-> "Boolean", v |-> 1]),
                    Log_log(Log_log(Log_log(Log_log(Log_new,
                        "event", LogString(<<"error">>)),
                        "message", LogString(Display(error))),
                        "error.kind", LogString(Display(error))),
                        "error.object", LogString(Debug(error))),
                    now)]

\* result.fail_span(&mut span).
FailCall(r) ==
    /\ Building /\ ~span.auto /\ CanCall
    /\ LET out == Result_fail_span(r, span, clock) IN
        /\ span' = out.span
        /\ returned' = Some(out.result)
    /\ lifeOps' = lifeOps + 1
    /\ UNCHANGED <<clock, options, channel, output, baggageOrder>>
    /\ UNCHANGED <<chanVars, repVars, dataVars, gtVars, carVars, stopLogVars, heapVars>>

NextFail ==
    \/ LifeTick
    \/ LifeSpan
    \/ \E c \in TagCalls : LifeTag(c[1], c[2])
    \/ \E log \in Logs : LifeLog(log)
    \/ \E r \in Results : FailCall(r)

SpecFail == InitLife /\ [][NextFail]_vars

\* C31: fail_span hands its Result back as it got it; on Ok the span is as it
\* was; on Err the span gains the tag error = true and exactly one log, whose
\* fields are event, message, error.kind and error.object, and nothing else of
\* the span changes.
C31_FailSpan ==
    [][\A r \in Results : FailCall(r) =>
        /\ returned' = Some(r)
        /\ r.kind = "Ok" => span' = span
        /\ r.kind = "Err" =>
            /\ span'.tags = Insert(span.tags, "error", [type |-> "Boolean", v |-> 1])
            /\ Len(span'.logs) = Len(span.logs) + 1
            /\ SubSeq(span'.logs, 1, Len(span.logs)) = span.logs
            /\ DOMAIN Last(span'.logs).fields
                    = {"event", "message", "error.kind", "error.object"}
            /\ Last(span'.logs).fields["event"] = LogString(<<"error">>)
            /\ span' = [span EXCEPT !.tags = span'.tags, !.logs = span'.logs]]_vars

\* A span that had one log, after fail_span on an Err.
C31_Witness ==
    /\ span.state = "building"
    /\ returned # None /\ returned[1].kind = "Err"
    /\ Len(span.logs) = 2
    /\ DOMAIN span.tags = {"error"}
    /\ "error.object" \in DOMAIN Last(span.logs).fields

\* ------------------------------------------------------- reference chains

\* A span B that was started as a child of the remote context A.
InitChain ==
    /\ ReporterIdle
    /\ AuxIdle
    /\ backend \in Backends
    /\ spans = <<Span_new(SpanContext_new([backend |-> backend, trace_id |-> 1, span_id |-> 1]),
                          <<[kind |-> "ChildOf", context |-> RemoteContext]>>)>>
    /\ nOps = 0
    /\ refStep = <<>>

\* The calls of SpecSpan, made from there.
SpecChain == InitChain /\ [][NextSpan]_vars

\* C33: when a span C takes a reference to the context of a span B, every key of
\* every context B referenced before is in C's baggage, with the value B holds
\* for it then: the value of the context B referenced unless B has overwritten
\* it since.
C33_TransitiveBaggage ==
    [][\A c \in DOMAIN spans', b \in DOMAIN spans :
        LET new == spans'[c].references
            bag == spans'[c].context.baggage IN
        (/\ c # b
         /\ Len(new) > Len(RefsBefore(c))
         /\ new[Len(new)].context = spans[b].context) =>
            \A i \in DOMAIN spans[b].references :
                \A k \in DOMAIN spans[b].references[i].context.baggage :
                    /\ k \in DOMAIN bag
                    /\ bag[k] = spans[b].context.baggage[k]]_vars

\* C33 witness: B, a child of the remote context, has overwritten the remote
\* context's key; C references B and holds B's value, not the remote one.
C33_Witness ==
    \E b, c \in DOMAIN spans :
        LET rc == spans[c].references IN
        /\ b # c
        /\ spans[b].references = <<[kind |-> "ChildOf", context |-> RemoteContext]>>
        /\ Len(rc) = 1
        /\ rc[1].context.inner.span_id = b
        /\ spans[b].context.baggage["a"] = "x"
        /\ RemoteContext.baggage["a"] = "y"
        /\ spans[c].context.baggage["a"] = "x"

\* What the baggage is after the references are taken in order: each parent's
\* items laid over what was there.
RECURSIVE OverlayAll(_, _)
OverlayAll(bag, refs) ==
    IF refs = <<>> THEN bag
    ELSE OverlayAll(Overlay(bag, Head(refs).context.baggage), Tail(refs))

\* C39: later references win. When a span takes references (one by child_of or
\* follows, several through its StartOptions), its baggage is each parent's laid
\* over the previous in the order of the list, so that the last reference holding
\* a key decides it, and with a real backend its trace id is that of the last
\* reference; a set_baggage_item call stores its value whatever the references
\* hold for the key.
C39_LaterReferencesWin ==
    [][/\ \A s \in DOMAIN spans' :
            LET new == spans'[s].references
                n == Len(RefsBefore(s))
                old == IF s \in DOMAIN spans THEN spans[s].context.baggage ELSE EmptyBaggage IN
            Len(new) > n =>
                /\ SubSeq(new, 1, n) = RefsBefore(s)
                /\ spans'[s].context.baggage = OverlayAll(old, SubSeq(new, n + 1, Len(new)))
                /\ backend \in RealBackends =>
                        spans'[s].context.inner.trace_id = new[Len(new)].context.inner.trace_id
       /\ IsSetBaggageStep =>
            \E s \in DOMAIN spans, k \in Keys, v \in Values :
                spans'[s].context.baggage = Insert(spans[s].context.baggage, k, v)]_vars

\* C39 witness: a span holds two references whose contexts give different values
\* to one key and have different trace ids; it has the value and the trace id of
\* the second.
C39_Witness ==
    \E s \in DOMAIN spans :
        LET rs == spans[s].references IN
        /\ backend = "File"
        /\ Len(rs) = 2
        /\ "a" \in DOMAIN rs[1].context.baggage /\ "a" \in DOMAIN rs[2].context.baggage
        /\ rs[1].context.baggage["a"] # rs[2].context.baggage["a"]
        /\ rs[1].context.inner.trace_id # rs[2].context.inner.trace_id
        /\ spans[s].context.baggage["a"] = rs[2].context.baggage["a"]
        /\ spans[s].context.inner.trace_id = rs[2].context.inner.trace_id

\* C40: the parent's context is copied when it is referenced. Whatever a span
\* does after another span referenced it (set a baggage item, take a reference
\* that changes its trace id), the span that referenced it stays as it is: its
\* baggage, and the context stored in its reference list with the baggage and
\* ids the parent had.
C40_CopiedAtReferenceTime ==
    [][\A p, c \in DOMAIN spans :
        (/\ p # c
         /\ \E i \in DOMAIN spans[c].references :
                spans[c].references[i].context.inner.span_id = p
         /\ spans'[p] # spans[p]) =>
            spans'[c] = spans[c]]_vars

\* C40 witness: a parent has set an item after the child referenced it: the
\* child's baggage does not have the key and the context the child stored is the
\* parent's older one.
C40_Witness ==
    \E p, c \in DOMAIN spans :
        LET r == spans[c].references IN
        /\ p # c
        /\ Len(r) = 1
        /\ r[1].context.inner.span_id = p
        /\ r[1].context.baggage # spans[p].context.baggage
        /\ "b" \in DOMAIN spans[p].context.baggage
        /\ "b" \notin DOMAIN spans[c].context.baggage
        /\ "b" \notin DOMAIN r[1].context.baggage

\* ------------------------------------------------- inject, then extract

\* tracer.extract(ExtractFormat::HttpHeaders(..)) on the carrier a successful
\* inject has filled.
RtExtract ==
    /\ carCall.op = "inject"
    /\ carResult.kind = "Ok"
    /\ carCall' = [carCall EXCEPT !.op = "extract"]
    /\ carResult' = FileTracer_extract("HttpHeaders", carrier)
    /\ UNCHANGED <<carrier, gtVars, chanVars, repVars, dataVars, extVars>>

\* A context about to be injected into an empty HttpHeaders carrier.
InitRoundTrip ==
    /\ RestIdle
    /\ GlobalIdle
    /\ ExtIdle
    /\ carCall \in
        {[op |-> "inject", format |-> "HttpHeaders", context |-> x, carrier |-> <<>>] :
            x \in InjectContexts}
    /\ carrier = carCall.carrier
    /\ carResult = Pending(carCall.carrier)

NextRoundTrip == CarInject \/ RtExtract

SpecRoundTrip == InitRoundTrip /\ [][NextRoundTrip]_vars

\* C34: extract on the carrier a FileTracer context was injected into returns a
\* context with the trace id, the span id and the baggage map of that context.
C34_RoundTrip ==
    (carCall.op = "extract" /\ carCall.context.inner.backend = "File") =>
        /\ carResult.kind = "OkSome"
        /\ carResult.context.inner = carCall.context.inner
        /\ carResult.context.baggage = carCall.context.baggage

\* ------------------------------------------------- stop and the worker's end

\* C35: ReporterThread::stop, called or run by the drop, never panics, the
\* senders of the channel all gone or not.
C35_StopNeverPanics == stopPc # "panicked"

\* The threads are scheduled: the worker takes its next step, the sink returns,
\* and the thread inside stop goes on sleeping, storing the flag and joining.
\* Nothing is assumed of the producers.
SpecStopFair ==
    /\ Init
    /\ [][NextStop]_vars
    /\ WF_vars(WorkerCheck)
    /\ WF_vars(WorkerRecv \/ WorkerTimeout \/ WorkerDisconnected)
    /\ WF_vars(WorkerSinkReturn)
    /\ WF_vars(StopSleep)
    /\ WF_vars(StopSetFlag)
    /\ WF_vars(StopJoin)

\* C36: once stop has stored the flag, the worker thread ends its loop and stop
\* returns.
C36_ShutdownLiveness == stopping ~> (workerPc = "done" /\ stopPc = "returned")

\* C37: whatever the producers do, no FinishedSpan is handed to the sink twice,
\* and the sink is invoked by the one worker thread, one span at a time: a
\* delivery is the worker's step from its receive into the sink, it delivers one
\* span, and none is delivered while the worker is inside the sink.
C37_OnceAndInTurn ==
    [][/\ \A i, j \in DOMAIN delivered' : i # j => delivered'[i] # delivered'[j]
       /\ delivered' # delivered =>
            /\ workerPc = "recv" /\ workerPc' = "sink"
            /\ Len(delivered') = Len(delivered) + 1
            /\ SubSeq(delivered', 1, Len(delivered)) = delivered
       /\ workerPc = "sink" => delivered' = delivered]_vars

\* C37 witness: the worker is inside the sink with the second span while a third,
\* finished meanwhile, waits in the channel.
C37_Witness ==
    /\ workerPc = "sink"
    /\ Len(delivered) = 2
    /\ Len(queue) = 1
    /\ \A i \in DOMAIN delivered : delivered[i] # queue[1]

\* ------------------------------------------------- the duration of a span

\* C38: every FinishedSpan ends no earlier than it starts, and write_trace does
\* not panic on it.
C38_FinishNotBeforeStart ==
    /\ \A i \in DOMAIN channel : channel[i].finish_time >= channel[i].start_time
    /\ output # <<>> => output.kind = "ok"

====
